---- MODULE Spec2Model ----
(***************************************************************************)
(* A model of the cache-coordination code of caching-strategies: the Redis *)
(* lock (locking/locks.py), the ticket booking endpoints (locking/main.py),*)
(* the single-flight refill (thundering-herd/main.py), the fixed-window    *)
(* rate limiter, negative caching, the tag index and the cache managers.   *)
(* The Redis server                                                        *)
(* is modelled by what its commands do (SET NX EX, SETEX, GET, DEL, INCR,  *)
(* EXPIRE, TTL, SADD, SMEMBERS, EVAL of the release script); every command *)
(* is atomic, and a key with an expiry disappears when its time is up.     *)
(*                                                                         *)
(* The module holds one specification per subsystem.  All of them use the  *)
(* five variables below; each Init gives them the shape of its subsystem.  *)
(***************************************************************************)
EXTENDS Integers, Sequences, FiniteSets, TLC

VARIABLES
    redis,  \* the Redis keyspace: present key -> [val, ttl]
    db,     \* the system of record behind the cache (database rows, query counters)
    req,    \* the local state of every caller: request, worker or RedisLock instance
    env,    \* what the program draws from its environment: uuid4(), the clock
    hist    \* history: what the calls made so far returned

vars == <<redis, db, req, env, hist>>

(***************************************************************************)
(* The Redis server.  A store is a function from the keys that exist to    *)
(* [val, ttl]; ttl is the remaining lifetime in time units, NoExpiry (-1,  *)
(* what TTL reports) for a key without expiry.                             *)
(***************************************************************************)
NoExpiry == -1

Exists(store, k) == k \in DOMAIN store

Put(store, k, v, t) ==
    [x \in DOMAIN store \cup {k} |-> IF x = k THEN [val |-> v, ttl |-> t] ELSE store[x]]

\* DEL key
Del(store, k) == [x \in DOMAIN store \ {k} |-> store[x]]

\* d time units pass: every expiry counts down, a key whose time is up is removed
AgeBy(store, d) ==
    LET live == {k \in DOMAIN store : store[k].ttl = NoExpiry \/ store[k].ttl > d}
    IN  [k \in live |-> IF store[k].ttl = NoExpiry THEN store[k]
                        ELSE [store[k] EXCEPT !.ttl = @ - d]]

Age(store) == AgeBy(store, 1)

\* an INCR that always answers 1
IncrStuck(store, k) == [n |-> 1, store |-> Put(store, k, 1, NoExpiry)]

\* INCR key: a missing key counts from 0 and gets no expiry; an expiry is kept
Incr(store, k) ==
    IF Exists(store, k)
    THEN [n |-> store[k].val + 1, store |-> [store EXCEPT ![k].val = @ + 1]]
    ELSE [n |-> 1, store |-> Put(store, k, 1, NoExpiry)]

\* an EXPIRE that is lost
ExpireDropped(store, k, t) == store

\* EXPIRE key seconds: sets the expiry of a key that exists
Expire(store, k, t) ==
    IF Exists(store, k) THEN [store EXCEPT ![k].ttl = t] ELSE store

\* a SET without NX, as a lock that forgot the NX flag would issue it
SetAlways(store, k, v, ex) == [ok |-> TRUE, store |-> Put(store, k, v, ex)]

\* a SET NX that gives the key no expiry
SetNXForever(store, k, v, ex) ==
    IF Exists(store, k) THEN [ok |-> FALSE, store |-> store]
    ELSE [ok |-> TRUE, store |-> Put(store, k, v, NoExpiry)]

\* SET key value NX EX seconds: writes only when the key does not exist
SetNX(store, k, v, ex) ==
    IF Exists(store, k) THEN [ok |-> FALSE, store |-> store]
    ELSE [ok |-> TRUE, store |-> Put(store, k, v, ex)]

(***************************************************************************)
(* locking/locks.py: RedisLock.  Every caller owns its RedisLock instance  *)
(* (main.py creates one per request), so acquire and release are one store *)
(* command each.  req[i].lock_id is the instance's lock_id, env.uuids the  *)
(* number of uuid4() values drawn, hist.holders[k] the instances whose     *)
(* acquire of k succeeded since k was last removed, hist.ret the last call *)
(* and its return value, hist.expired[k] whether k was last removed by the *)
(* end of its lease.  Time is counted in seconds.                          *)
(***************************************************************************)
NumInstances == 2
MaxUuid == 2
MaxTimeout == 2

Instances == 1 .. NumInstances
LockKeys == {"lock:event:1", "lock:event:2"}
None == 0

\* a release that deletes without comparing the stored value with the caller's token
ReleaseAnyOwner(store, k, id) ==
    IF Exists(store, k) THEN [n |-> 1, store |-> Del(store, k)]
    ELSE [n |-> 0, store |-> store]

\* a release that leaves the key where it is
ReleaseSkipped(store, k, id) == [n |-> 0, store |-> store]

\* the Lua script of release: delete KEYS[1] only if its value equals ARGV[1]
ReleaseScript(store, k, id) ==
    IF Exists(store, k) /\ store[k].val = id
    THEN [n |-> 1, store |-> Del(store, k)]
    ELSE [n |-> 0, store |-> store]

\* the holders after the step from store to next: a removed key has none
Held(h, store, next) ==
    [k \in DOMAIN h |-> IF Exists(store, k) /\ ~Exists(next, k) THEN {} ELSE h[k]]

\* RedisLock.acquire(key, timeout)
acquire(i, k, timeout) ==
    /\ env.uuids < MaxUuid
    /\ LET id == env.uuids + 1
           r == SetNX(redis, k, id, timeout)
       IN  /\ env' = [env EXCEPT !.uuids = id]
           /\ req' = [req EXCEPT ![i].lock_id = id]
           /\ redis' = r.store
           /\ hist' = [holders |-> [hist.holders EXCEPT ![k] = IF r.ok THEN @ \cup {i} ELSE @],
                       ret |-> [op |-> "acquire", inst |-> i, key |-> k, result |-> r.ok],
                       expired |-> hist.expired]
           /\ UNCHANGED db

\* RedisLock.release(key)
release(i, k) ==
    IF req[i].lock_id = None
    THEN /\ hist' = [hist EXCEPT !.ret = [op |-> "release", inst |-> i, key |-> k,
                                          result |-> FALSE]]
         /\ UNCHANGED <<redis, db, req, env>>
    ELSE LET r == ReleaseScript(redis, k, req[i].lock_id)
         IN  /\ redis' = r.store
             /\ hist' = [holders |-> Held(hist.holders, redis, r.store),
                         ret |-> [op |-> "release", inst |-> i, key |-> k,
                                  result |-> r.n # 0],
                         expired |-> [hist.expired EXCEPT ![k] = IF r.n # 0 THEN FALSE ELSE @]]
             /\ UNCHANGED <<db, req, env>>

\* one second passes: the leases count down and a lease that is up removes its key
LockTick ==
    /\ DOMAIN redis # {}
    /\ redis' = Age(redis)
    /\ hist' = [holders |-> Held(hist.holders, redis, Age(redis)),
                ret |-> [op |-> "tick", inst |-> 0, key |-> "", result |-> FALSE],
                expired |-> [k \in LockKeys |->
                                IF Exists(redis, k) /\ ~Exists(Age(redis), k) THEN TRUE
                                ELSE hist.expired[k]]]
    /\ UNCHANGED <<db, req, env>>

LockInit ==
    /\ redis = <<>>
    /\ db = <<>>
    /\ req = [i \in Instances |-> [lock_id |-> None]]
    /\ env = [uuids |-> 0]
    /\ hist = [holders |-> [k \in LockKeys |-> {}],
               ret |-> [op |-> "init", inst |-> 0, key |-> "", result |-> FALSE],
               expired |-> [k \in LockKeys |-> FALSE]]

LockNext ==
    \/ \E i \in Instances, k \in LockKeys, t \in 1 .. MaxTimeout : acquire(i, k, t)
    \/ \E i \in Instances, k \in LockKeys : release(i, k)
    \/ LockTick

SpecLock == LockInit /\ [][LockNext]_vars

\* C2: a release by an instance whose lock_id is not the value stored at the key
\* returns False and leaves the key with its value and lease, so that the instance
\* whose lock_id is the stored value can still release it.
C2_ForeignReleaseKeepsKey ==
    [][(/\ hist'.ret.op = "release"
        /\ Exists(redis, hist'.ret.key)
        /\ req[hist'.ret.inst].lock_id # redis[hist'.ret.key].val)
       => (/\ hist'.ret.result = FALSE
           /\ redis' = redis
           /\ \A j \in Instances :
                req'[j].lock_id = redis'[hist'.ret.key].val
                    => ReleaseScript(redis', hist'.ret.key, req'[j].lock_id).n = 1)]_vars

\* C2 witness: a release was just refused to an instance that drew a token of its
\* own, on a key that another instance holds and can still release.
C2_Witness ==
    /\ hist.ret.op = "release"
    /\ hist.ret.result = FALSE
    /\ Exists(redis, hist.ret.key)
    /\ req[hist.ret.inst].lock_id # None
    /\ req[hist.ret.inst].lock_id # redis[hist.ret.key].val
    /\ \E j \in Instances : req[j].lock_id = redis[hist.ret.key].val

\* C3: mutual exclusion.  While a lock key exists every acquire of it returns False
\* and leaves it as it is, and at no time have two callers acquired the same key
\* since it was last removed.
C3_MutualExclusion ==
    /\ [](\A k \in LockKeys : Cardinality(hist.holders[k]) <= 1)
    /\ [][(hist'.ret.op = "acquire" /\ Exists(redis, hist'.ret.key))
          => (/\ hist'.ret.result = FALSE
              /\ redis'[hist'.ret.key] = redis[hist'.ret.key]
              /\ hist'.holders = hist.holders)]_vars

\* C3 witness: an acquire was just refused on a key that another caller holds.
C3_Witness ==
    /\ hist.ret.op = "acquire"
    /\ hist.ret.result = FALSE
    /\ Exists(redis, hist.ret.key)
    /\ hist.holders[hist.ret.key] # {}
    /\ hist.ret.inst \notin hist.holders[hist.ret.key]

\* C35: an instance that acquired key k and whose lease on k has not run out can
\* release it: its release(k) returns True and removes k, whatever other acquire
\* calls the instance made since.
C35_OwnerCanRelease ==
    [][(/\ hist'.ret.op = "release"
        /\ Exists(redis, hist'.ret.key)
        /\ hist'.ret.inst \in hist.holders[hist'.ret.key])
       => (hist'.ret.result = TRUE /\ ~Exists(redis', hist'.ret.key))]_vars

\* an instance that made no acquire call since the one that created the key
\* releases it
LockOwnerReleasesAtOnce ==
    [][(/\ hist'.ret.op = "release"
        /\ Exists(redis, hist'.ret.key)
        /\ redis[hist'.ret.key].val = req[hist'.ret.inst].lock_id)
       => (hist'.ret.result = TRUE /\ ~Exists(redis', hist'.ret.key))]_vars

\* the scheduler lets time pass
SpecLockFair == SpecLock /\ WF_vars(LockTick)

\* C14: a lock key always carries a lease of at most the timeout it was acquired
\* with; a key that is not released is removed when the lease is up, whoever calls
\* acquire or release meanwhile; and the acquire that finds the key removed succeeds.
C14_LeaseExpires ==
    /\ [](\A k \in LockKeys : Exists(redis, k) => (0 < redis[k].ttl /\ redis[k].ttl <= MaxTimeout))
    /\ \A k \in LockKeys : \A id \in 1 .. MaxUuid :
          (Exists(redis, k) /\ redis[k].val = id) ~> ~Exists(redis, k)
    /\ [][(hist'.ret.op = "acquire" /\ ~Exists(redis, hist'.ret.key))
          => (/\ hist'.ret.result = TRUE
              /\ redis'[hist'.ret.key].val = req'[hist'.ret.inst].lock_id)]_vars

\* C14 witness: an instance has just acquired a key that another instance had
\* acquired and that was removed by the end of its lease, not by a release.
C14_Witness ==
    /\ hist.ret.op = "acquire"
    /\ hist.ret.result = TRUE
    /\ hist.expired[hist.ret.key]
    /\ \E j \in Instances : j # hist.ret.inst /\ req[j].lock_id # None
                              /\ req[j].lock_id < redis[hist.ret.key].val
    /\ \A k \in LockKeys \ {hist.ret.key} : ~Exists(redis, k) /\ ~hist.expired[k]

(***************************************************************************)
(* thundering-herd/main.py: get_product_safe.  The endpoint is a plain def:*)
(* FastAPI runs every request on its own worker thread, so the requests    *)
(* interleave between any two store commands.  req[p].pc is the line the   *)
(* request is at, db.queries counts the calls of expensive_db_query.  How  *)
(* long the query, a sleep or a stalled thread takes is not fixed by the   *)
(* code: a key set with ex= may run out between any two steps (HerdExpire),*)
(* and hist records whether the lock's lease ever did.  The lock's value is*)
(* "1" for every request; hist.holder is the request whose SET created the *)
(* lock key now in the store (None when there is no lock key).             *)
(***************************************************************************)
NumReq == 2
PollLimit == 30
LockEx == 5
CacheEx == 10

Requests == 1 .. NumReq
cache_key == "product:1:safe"
lock_key == "lock:product:1"

\* a poll loop that never gives up
NeverExhausted(n) == FALSE

\* for _ in range(30): the loop ends after its 30th pass
PollsExhausted(n) == n >= PollLimit

\* line 80: cached = redis_client.get(cache_key); a hit returns the cached value
HerdCheck(p) ==
    /\ req[p].pc = "start"
    /\ req' = [req EXCEPT ![p] =
                 IF Exists(redis, cache_key)
                 THEN [@ EXCEPT !.pc = "done", !.source = "cache"]
                 ELSE [@ EXCEPT !.pc = "lock", !.missed = TRUE]]
    /\ hist' = [hist EXCEPT !.overlap = @ /\ \A q \in Requests : req[q].pc # "done"]
    /\ UNCHANGED <<redis, db, env>>

\* line 86: lock_acquired = redis_client.set(lock_key, "1", nx=True, ex=5)
HerdLock(p) ==
    /\ req[p].pc = "lock"
    /\ LET r == SetNX(redis, lock_key, "1", LockEx)
       IN  /\ redis' = r.store
           /\ req' = [req EXCEPT ![p].pc = IF r.ok THEN "query" ELSE "poll",
                                 ![p].winner = r.ok]
           /\ hist' = [hist EXCEPT !.holder = IF r.ok THEN p ELSE @]
    /\ UNCHANGED <<db, env>>

\* line 92: the winner runs expensive_db_query
HerdQuery(p) ==
    /\ req[p].pc = "query"
    /\ db' = [db EXCEPT !.queries = @ + 1]
    /\ req' = [req EXCEPT ![p].pc = "setcache", ![p].source = "database"]
    /\ UNCHANGED <<redis, env, hist>>

\* line 93: redis_client.set(cache_key, json.dumps(data), ex=10)
HerdSetCache(p) ==
    /\ req[p].pc = "setcache"
    /\ redis' = Put(redis, cache_key, "data", CacheEx)
    /\ req' = [req EXCEPT ![p].pc = "unlock", ![p].wrote = TRUE]
    /\ UNCHANGED <<db, env, hist>>

\* lines 95-96: finally: redis_client.delete(lock_key), then the return of line 94,
\* or the exception that entered the finally block goes on to the caller
HerdUnlock(p) ==
    /\ req[p].pc \in {"unlock", "finally"}
    /\ redis' = Del(redis, lock_key)
    /\ req' = [req EXCEPT ![p].pc = IF @ = "unlock" THEN "done" ELSE "failed"]
    /\ hist' = [hist EXCEPT !.holder = None]
    /\ UNCHANGED <<db, env>>

\* lines 100-105: one pass of the waiter's loop: sleep 0.1 s, then read the cache
HerdPoll(p) ==
    /\ req[p].pc = "poll"
    /\ ~PollsExhausted(req[p].polls)
    /\ req' = [req EXCEPT ![p] =
                 IF Exists(redis, cache_key)
                 THEN [@ EXCEPT !.pc = "done", !.source = "cache", !.polls = @ + 1]
                 ELSE [@ EXCEPT !.polls = @ + 1]]
    /\ UNCHANGED <<redis, db, env, hist>>

\* a fallback that stores what it fetched
HerdFallbackCaching(p) ==
    /\ req[p].pc = "poll"
    /\ PollsExhausted(req[p].polls)
    /\ db' = [db EXCEPT !.queries = @ + 1]
    /\ redis' = Put(redis, cache_key, "data", CacheEx)
    /\ req' = [req EXCEPT ![p].pc = "done", ![p].source = "database", ![p].fellBack = TRUE]
    /\ UNCHANGED <<env, hist>>

\* lines 107-110: the loop is over and the cache still empty: the waiter queries itself
HerdFallback(p) ==
    /\ req[p].pc = "poll"
    /\ PollsExhausted(req[p].polls)
    /\ db' = [db EXCEPT !.queries = @ + 1]
    /\ req' = [req EXCEPT ![p].pc = "done", ![p].source = "database", ![p].fellBack = TRUE]
    /\ UNCHANGED <<redis, env, hist>>

\* lines 91-95: expensive_db_query (line 92) or the SET of the cache key (line 93)
\* raises inside the try block: control goes to the finally block
HerdRaise(p) ==
    /\ req[p].pc \in {"query", "setcache"}
    /\ db' = [db EXCEPT !.queries = IF req[p].pc = "query" THEN @ + 1 ELSE @]
    /\ req' = [req EXCEPT ![p].pc = "finally"]
    /\ UNCHANGED <<redis, env, hist>>

\* lines 100-105: the waiter's request is abandoned in its poll loop (the thread
\* is gone between two polls); nothing else runs for it
HerdAbandon(p) ==
    /\ req[p].pc = "poll"
    /\ req' = [req EXCEPT ![p].pc = "abandoned"]
    /\ UNCHANGED <<redis, db, env, hist>>

\* the winner's process dies between acquiring the lock and releasing it
HerdCrash(p) ==
    /\ req[p].pc \in {"query", "setcache", "unlock"}
    /\ req' = [req EXCEPT ![p].pc = "crashed"]
    /\ UNCHANGED <<redis, db, env, hist>>

\* the time of a key set with ex= is up
HerdExpire(k) ==
    /\ Exists(redis, k)
    /\ redis[k].ttl # NoExpiry
    /\ redis' = Del(redis, k)
    /\ hist' = [hist EXCEPT !.lockExpired = @ \/ k = lock_key,
                            !.holder = IF k = lock_key THEN None ELSE @]
    /\ UNCHANGED <<db, req, env>>

HerdInit ==
    /\ redis = <<>>
    /\ db = [queries |-> 0]
    /\ req = [p \in Requests |-> [pc |-> "start", polls |-> 0, source |-> "none",
                                  missed |-> FALSE, winner |-> FALSE, fellBack |-> FALSE,
                                  wrote |-> FALSE]]
    /\ env = <<>>
    /\ hist = [overlap |-> TRUE, lockExpired |-> FALSE, holder |-> None]

HerdStep(p) ==
    \/ HerdCheck(p)
    \/ HerdLock(p)
    \/ HerdQuery(p)
    \/ HerdSetCache(p)
    \/ HerdUnlock(p)
    \/ HerdPoll(p)
    \/ HerdFallback(p)

HerdNext ==
    \/ \E p \in Requests : HerdStep(p)
    \/ \E p \in Requests : HerdCrash(p)
    \/ \E k \in {cache_key, lock_key} : HerdExpire(k)

SpecHerd == HerdInit /\ [][HerdNext]_vars

\* the same requests when a statement of the winner's try block can raise and a
\* waiter can be abandoned
HerdFailNext ==
    \/ HerdNext
    \/ \E p \in Requests : HerdRaise(p)
    \/ \E p \in Requests : HerdAbandon(p)

SpecHerdFail == HerdInit /\ [][HerdFailNext]_vars

\* every request thread that has not returned keeps running
SpecHerdFair == SpecHerd /\ \A p \in Requests : WF_vars(HerdStep(p))

\* C1: when all the requests started on an empty cache while none had returned, the
\* lock's lease never ran out and no waiter used up its 30 polls, exactly one request
\* ran expensive_db_query and every other one returned the cached value.
C1_ExactlyOneQuery ==
    (/\ \A p \in Requests : req[p].pc = "done" /\ req[p].missed
     /\ hist.overlap
     /\ ~hist.lockExpired
     /\ \A p \in Requests : ~req[p].fellBack)
    => (/\ db.queries = 1
        /\ \E p \in Requests :
             /\ req[p].source = "database"
             /\ \A q \in Requests \ {p} : req[q].source = "cache")

\* C8: a request that did not get the lock never blocks forever.  It makes at most 30
\* polls; it queries the database itself only after the 30th poll found the cache still
\* empty, and then returns that value; and, as long as its thread runs, a waiting
\* request always returns.
C8_WaiterNeverBlocks ==
    /\ [](\A p \in Requests :
            /\ req[p].polls <= PollLimit
            /\ req[p].fellBack =>
                 (req[p].polls = PollLimit /\ req[p].pc = "done"
                    /\ req[p].source = "database")
            /\ (req[p].pc = "done" /\ ~req[p].winner) => req[p].source # "none")
    /\ \A p \in Requests : (req[p].pc = "poll") ~> (req[p].pc = "done")

\* C30: a request deletes lock:product:1 only while the key in the store is the one
\* its own SET created: a winner whose lease ran out never deletes the lock that
\* another request acquired afterwards.
C30_ReleaseOnlyByHolder ==
    [][\A p \in Requests :
          (req[p].pc = "unlock" /\ req'[p].pc = "done" /\ Exists(redis, lock_key))
              => hist.holder = p]_vars

\* C31: the winner writes product:1:safe before it deletes lock:product:1, also
\* when a statement of its try block raised: a winner that has run its finally
\* block has written the cache key.
C31_CacheBeforeRelease ==
    /\ [](\A p \in Requests :
            (req[p].winner /\ req[p].pc \in {"done", "failed"}) => req[p].wrote)
    /\ [][\A p \in Requests :
            (req[p].pc \in {"unlock", "finally"} /\ req'[p].pc \in {"done", "failed"})
                => req[p].wrote]_vars

\* when no statement of the try block raises, the winner writes the cache key
\* before it deletes the lock key
HerdCacheBeforeRelease ==
    \A p \in Requests : (req[p].winner /\ req[p].pc = "done") => req[p].wrote

\* C34: a request in the waiter branch leaves the store alone: each of its steps
\* (a poll, the fallback query, being abandoned) leaves every key unchanged, a
\* request that did not win never writes the cache key, and the lock key keeps the
\* expiry its SET gave it.
C34_WaiterNoSideEffects ==
    /\ [][\A p \in Requests :
            (req[p].pc = "poll" /\ req'[p] # req[p]) =>
                (redis' = redis /\ req'[p].pc \in {"poll", "done", "abandoned"})]_vars
    /\ [](\A p \in Requests : ~req[p].winner => ~req[p].wrote)
    /\ [](Exists(redis, lock_key) => redis[lock_key].ttl = LockEx)

\* C34 witness: a waiter has used up its polls and returned its own fetch while
\* the lock key is still in the store and the cache key is still absent
C34_Witness ==
    \E p \in Requests :
        /\ req[p].fellBack /\ req[p].pc = "done" /\ ~req[p].winner
        /\ Exists(redis, lock_key)
        /\ ~Exists(redis, cache_key)

\* C8 witness: the winner died holding the lock, the cache stayed empty, and the waiter
\* returned a value from its own query after 30 polls.
C8_Witness ==
    \E p, q \in Requests :
        /\ req[q].pc = "crashed"
        /\ ~Exists(redis, cache_key)
        /\ req[p].fellBack /\ req[p].pc = "done" /\ req[p].polls = PollLimit

(***************************************************************************)
(* locking/main.py: book_ticket_with_lock, one request per user for one    *)
(* event.  Time is counted in half seconds (the critical section's         *)
(* time.sleep(0.5) is one unit).  A request draws a fresh uuid4 at every   *)
(* acquire and releases with the one of its successful acquire; as a user  *)
(* sends one request, that token is written as the user's number.  The     *)
(* database row is read into the request's session (req[u].available) and  *)
(* written back at commit.  A request that holds the lock leaves its       *)
(* critical section within CSMaxTicks units: the sleep plus the time of    *)
(* the database calls.                                                     *)
(***************************************************************************)
NumUsers == 2
MaxTickets == 2
CSMaxTicks == 2
BookLockTimeout == 10
BookWait == 5
BookSleep == 1

Users == 1 .. NumUsers
event_lock_key == "lock:event:1"
HalfSeconds(s) == 2 * s
CSLines == {"read", "sleep", "check", "commit", "release"}

\* a caller that goes on whatever acquire returned
BookAcquireUnchecked(store, u) ==
    [ok |-> TRUE, store |-> SetNX(store, event_lock_key, u, HalfSeconds(BookLockTimeout)).store]

\* line 158: lock.acquire(lock_key, timeout=10)
BookAcquire(store, u) == SetNX(store, event_lock_key, u, HalfSeconds(BookLockTimeout))

\* lines 155-161: start_time = time.time() and the first pass of the acquire loop,
\* which is entered at once (0 < 5)
BookStart(u) ==
    /\ req[u].pc = "start"
    /\ LET r == BookAcquire(redis, u)
       IN  /\ redis' = r.store
           /\ req' = [req EXCEPT ![u].pc = IF r.ok THEN "read" ELSE "acquire"]
    /\ UNCHANGED <<db, env, hist>>

\* lines 157-161: a later pass of the acquire loop, entered while less than 5 s have passed
BookTryLock(u) ==
    /\ req[u].pc = "acquire"
    /\ req[u].waited < HalfSeconds(BookWait)
    /\ LET r == BookAcquire(redis, u)
       IN  /\ redis' = r.store
           /\ req' = [req EXCEPT ![u].pc = IF r.ok THEN "read" ELSE "acquire"]
    /\ UNCHANGED <<db, env, hist>>

\* a busy answer that takes a ticket all the same
BookBusyTakesTicket(u) ==
    /\ req[u].pc = "acquire"
    /\ req[u].waited >= HalfSeconds(BookWait)
    /\ db' = [db EXCEPT !.available = @ - 1]
    /\ req' = [req EXCEPT ![u].pc = "done", ![u].success = FALSE, ![u].message = "busy"]
    /\ UNCHANGED <<redis, env, hist>>

\* lines 163-168: the loop ended without the lock: "System busy", no release
BookBusy(u) ==
    /\ req[u].pc = "acquire"
    /\ req[u].waited >= HalfSeconds(BookWait)
    /\ req' = [req EXCEPT ![u].pc = "done", ![u].success = FALSE, ![u].message = "busy"]
    /\ UNCHANGED <<redis, db, env, hist>>

\* lines 174-179: load the event; a missing event raises 404 and runs the finally
BookRead(u) ==
    /\ req[u].pc = "read"
    /\ req' = [req EXCEPT ![u] =
                 IF db.present
                 THEN [@ EXCEPT !.pc = "sleep", !.available = db.available]
                 ELSE [@ EXCEPT !.pc = "release", !.success = FALSE, !.message = "404"]]
    /\ UNCHANGED <<redis, db, env, hist>>

\* line 183: time.sleep(0.5) is over
BookWake(u) ==
    /\ req[u].pc = "sleep"
    /\ req[u].slept >= BookSleep
    /\ req' = [req EXCEPT ![u].pc = "check"]
    /\ UNCHANGED <<redis, db, env, hist>>

\* lines 185-191: if available <= 0: return "No tickets available"
BookCheck(u) ==
    /\ req[u].pc = "check"
    /\ req' = [req EXCEPT ![u] =
                 IF req[u].available <= 0
                 THEN [@ EXCEPT !.pc = "release", !.success = FALSE, !.message = "none left"]
                 ELSE [@ EXCEPT !.pc = "commit"]]
    /\ UNCHANGED <<redis, db, env, hist>>

\* lines 196-207: add the booking, event.available_tickets -= 1 on the loaded row, commit
BookCommit(u) ==
    /\ req[u].pc = "commit"
    /\ db' = [db EXCEPT !.available = req[u].available - 1, !.bookings = @ + 1]
    /\ req' = [req EXCEPT ![u].pc = "release", ![u].success = TRUE, ![u].message = "booked"]
    /\ UNCHANGED <<redis, env, hist>>

\* line 205: db.commit() raises a database error: nothing is committed and
\* control goes to the finally block (an error of the query of line 174 leaves the
\* try block the way the 404 of line 176 does)
BookDbError(u) ==
    /\ req[u].pc = "commit"
    /\ req' = [req EXCEPT ![u].pc = "release", ![u].success = FALSE, ![u].message = "error"]
    /\ UNCHANGED <<redis, db, env, hist>>

\* lines 218-220: finally: lock.release(lock_key), then the response is returned
BookRelease(u) ==
    /\ req[u].pc = "release"
    /\ redis' = ReleaseScript(redis, event_lock_key, u).store
    /\ req' = [req EXCEPT ![u].pc = "done"]
    /\ UNCHANGED <<db, env, hist>>

\* half a second passes
BookTick ==
    /\ \E u \in Users : req[u].pc \in CSLines \cup {"acquire"}
    /\ \A u \in Users : req[u].pc \in CSLines => req[u].held < CSMaxTicks
    /\ redis' = Age(redis)
    /\ req' = [u \in Users |->
                 IF req[u].pc = "acquire"
                 THEN [req[u] EXCEPT !.waited = IF @ < HalfSeconds(BookWait) THEN @ + 1 ELSE @]
                 ELSE IF req[u].pc \in CSLines
                 THEN [req[u] EXCEPT !.held = @ + 1,
                                     !.slept = IF req[u].pc = "sleep" /\ @ < BookSleep
                                               THEN @ + 1 ELSE @]
                 ELSE req[u]]
    /\ UNCHANGED <<db, env, hist>>

BookInit ==
    /\ redis = <<>>
    /\ \E n \in 0 .. MaxTickets, e \in BOOLEAN :
         /\ db = [present |-> e, available |-> n, bookings |-> 0]
         /\ hist = [initial |-> n]
    /\ req = [u \in Users |-> [pc |-> "start", waited |-> 0, held |-> 0, slept |-> 0,
                               available |-> 0, success |-> FALSE, message |-> "none"]]
    /\ env = <<>>

BookNext ==
    \/ \E u \in Users : BookStart(u)
    \/ \E u \in Users : BookTryLock(u)
    \/ \E u \in Users : BookBusy(u)
    \/ \E u \in Users : BookRead(u)
    \/ \E u \in Users : BookWake(u)
    \/ \E u \in Users : BookCheck(u)
    \/ \E u \in Users : BookCommit(u)
    \/ \E u \in Users : BookRelease(u)
    \/ BookTick

SpecBook == BookInit /\ [][BookNext]_vars

\* the same requests when a database call can raise
BookFailNext ==
    \/ BookNext
    \/ \E u \in Users : BookDbError(u)

SpecBookFail == BookInit /\ [][BookFailNext]_vars

Booked == {u \in Users : req[u].success}

C37_BusyLeavesNoTrace ==
    /\ [](\A u \in Users :
            req[u].message = "busy" =>
                (req[u].pc = "done" /\ ~req[u].success /\ u \notin Booked
                 /\ req[u].waited >= HalfSeconds(BookWait)))
    /\ [][\A u \in Users :
            (req[u].pc \in {"start", "acquire"} /\ req'[u] # req[u]) => db' = db]_vars
    /\ [][\A u \in Users :
            (req[u].pc = "acquire" /\ req'[u].pc = "done") =>
                (req'[u].message = "busy" /\ redis' = redis /\ db' = db)]_vars

\* C37 witness: a request has returned "System busy" while the other one booked
\* the only change of the database
C37_Witness ==
    \E u, v \in Users :
        /\ req[u].pc = "done" /\ req[u].message = "busy"
        /\ req[v].pc = "done" /\ req[v].message = "booked"
        /\ db.bookings = 1
        /\ db.available = hist.initial - 1

\* C33: a request that acquired the lock releases it on every way out of the
\* critical section (booked, no ticket left, event not found, database error):
\* the step that leaves the finally block removes the key that holds the request's
\* token, and once the request has returned the lock key does not hold its token.
C33_ReleasedOnEveryExit ==
    /\ [](\A u \in Users :
            req[u].pc = "done" =>
                ~(Exists(redis, event_lock_key) /\ redis[event_lock_key].val = u))
    /\ [][\A u \in Users :
            (req[u].pc = "release" /\ req'[u].pc = "done") =>
                /\ req[u].message \in {"booked", "none left", "404", "error"}
                /\ (Exists(redis, event_lock_key) /\ redis[event_lock_key].val = u)
                       => ~Exists(redis', event_lock_key)]_vars

\* C33 witness: one request has booked, the other has failed with a database
\* error, both have returned and the lock key is gone
C33_Witness ==
    /\ \E u, v \in Users :
          /\ req[u].pc = "done" /\ req[u].message = "booked"
          /\ req[v].pc = "done" /\ req[v].message = "error"
    /\ ~Exists(redis, event_lock_key)

(***************************************************************************)
(* locking/main.py: book_ticket_no_lock, one request per user for one      *)
(* event, handled by server processes that share the database: the read,   *)
(* the check after the sleep and the commit of different requests          *)
(* interleave.  (Inside one uvicorn process the handler, an async function *)
(* that blocks in time.sleep, runs from its read to its commit without     *)
(* another request in between.)  req[u].stale: the row had changed between *)
(* the request's read and its commit.                                      *)
(***************************************************************************)
NumClients == 3
Clients == 1 .. NumClients

\* a check that lets every request through
AlwaysSellable(available) == TRUE

\* line 94: if available <= 0: return "No tickets available"
Sellable(available) == ~(available <= 0)

\* lines 82-87: load the event, 404 when it is missing; available = event.available_tickets
NoLockRead(u) ==
    /\ req[u].pc = "start"
    /\ req' = [req EXCEPT ![u] =
                 IF db.present
                 THEN [@ EXCEPT !.pc = "check", !.available = db.available]
                 ELSE [@ EXCEPT !.pc = "done", !.message = "404"]]
    /\ UNCHANGED <<redis, db, env, hist>>

\* lines 91-100: after time.sleep(0.5), the check of the value read before it
NoLockCheck(u) ==
    /\ req[u].pc = "check"
    /\ req' = [req EXCEPT ![u] =
                 IF Sellable(req[u].available)
                 THEN [@ EXCEPT !.pc = "commit"]
                 ELSE [@ EXCEPT !.pc = "done", !.message = "none left"]]
    /\ UNCHANGED <<redis, db, env, hist>>

\* lines 105-114: add the booking, event.available_tickets -= 1 on the loaded row, commit
NoLockCommit(u) ==
    /\ req[u].pc = "commit"
    /\ db' = [db EXCEPT !.available = req[u].available - 1, !.bookings = @ + 1]
    /\ req' = [req EXCEPT ![u].pc = "done", ![u].success = TRUE, ![u].message = "booked",
                          ![u].stale = db.available # req[u].available]
    /\ UNCHANGED <<redis, env, hist>>

NoLockInit ==
    /\ redis = <<>>
    /\ \E n \in 0 .. MaxTickets, e \in BOOLEAN :
         /\ db = [present |-> e, available |-> n, bookings |-> 0]
         /\ hist = [initial |-> n]
    /\ req = [u \in Clients |-> [pc |-> "start", available |-> 0, success |-> FALSE,
                               message |-> "none", stale |-> FALSE]]
    /\ env = <<>>

NoLockNext ==
    \/ \E u \in Clients : NoLockRead(u)
    \/ \E u \in Clients : NoLockCheck(u)
    \/ \E u \in Clients : NoLockCommit(u)

SpecNoLock == NoLockInit /\ [][NoLockNext]_vars

NoLockBooked == {u \in Clients : req[u].success}

\* C25: without the lock the successful bookings can exceed the tickets available
\* at the start (the witness: 2 bookings of 1 ticket, both requests having read
\* available = 1).  Every successful request had read at least 1 available
\* ticket, and an event is oversold only when a successful request committed over
\* a row that had changed since it read it.
C25_OversellingByStaleRead ==
    /\ db.bookings = Cardinality(NoLockBooked)
    /\ \A u \in NoLockBooked : req[u].available >= 1
    /\ db.bookings > hist.initial => \E u \in NoLockBooked : req[u].stale

\* C25 witness: an event with 1 ticket, 2 successful bookings that both read
\* available = 1
C25_Witness ==
    /\ hist.initial = 1
    /\ Cardinality(NoLockBooked) >= 2
    /\ \A u \in NoLockBooked : req[u].available = 1
    /\ db.bookings > hist.initial
    /\ db.available = 0

(***************************************************************************)
(* rate-limiter/main.py: check_rate_limit.  env is the wall clock (minute, *)
(* second); calls are made at multiples of TickSeconds.  A call reads the  *)
(* clock and increments the counter of its window in one step (RateIncr)   *)
(* and, when it made the first increment, sets the expiry in a second      *)
(* step (RateExpire), so that calls of several worker threads interleave.  *)
(* hist.calls counts, per user and window, the increments made so far,     *)
(* hist.n all of them; hist.ret is the last result returned.               *)
(***************************************************************************)
RATE_LIMIT == 5
WINDOW_SECONDS == 60
NumCallers == 2
MaxTicks == 2
MaxExtra == 2
TickSeconds == 30

Callers == 1 .. NumCallers
RateUsers == {"10.0.0.1", "10.0.0.2"}
RateMinutes == 0 .. (MaxTicks * TickSeconds) \div 60
\* a max that does not cut off
MaxSecond(a, b) == b

Max(a, b) == IF a >= b THEN a ELSE b

\* a key that leaves the user out
RateKeyNoUser(u, m) == <<"rate_limit", "", m>>

\* a key that leaves the window out
RateKeyNoWindow(u, m) == <<"rate_limit", u, 0>>

\* line 31-32: key = f"rate_limit:{user_id}:{current_minute}"
RateKey(u, m) == <<"rate_limit", u, m>>

\* lines 39-51: the result built from the post-increment count
RateResult(u, m, sec, current, ordinal) ==
    [user |-> u, minute |-> m, allowed |-> current <= RATE_LIMIT,
     limit |-> RATE_LIMIT, remaining |-> Max(0, RATE_LIMIT - current),
     current |-> current, retry_after |-> 60 - sec, ordinal |-> ordinal]

\* lines 30-34: now = datetime.now(); current = redis_client.incr(key); a call whose
\* increment did not return 1 goes on to lines 39-51 and returns
RateIncr(c, u) ==
    /\ req[c].pc = "idle"
    /\ hist.n < RATE_LIMIT + MaxExtra
    /\ LET key == RateKey(u, env.minute)
           r == Incr(redis, key)
           ordinal == hist.calls[<<u, env.minute>>] + 1
           res == RateResult(u, env.minute, env.second, r.n, ordinal)
       IN  /\ redis' = r.store
           /\ hist' = [calls |-> [hist.calls EXCEPT ![<<u, env.minute>>] = ordinal],
                       n |-> hist.n + 1,
                       ret |-> IF r.n = 1 THEN hist.ret ELSE res]
           /\ req' = [req EXCEPT ![c] = IF r.n = 1
                                        THEN [pc |-> "expire", key |-> key, res |-> res]
                                        ELSE req[c]]
    /\ UNCHANGED <<db, env>>

\* lines 36-37: if current == 1: redis_client.expire(key, WINDOW_SECONDS); then the
\* return of lines 39-51
RateExpire(c) ==
    /\ req[c].pc = "expire"
    /\ redis' = Expire(redis, req[c].key, WINDOW_SECONDS)
    /\ hist' = [hist EXCEPT !.ret = req[c].res]
    /\ req' = [req EXCEPT ![c] = [pc |-> "idle", key |-> <<>>, res |-> <<>>]]
    /\ UNCHANGED <<db, env>>

\* TickSeconds pass on the wall clock
RateTick ==
    /\ env.ticks < MaxTicks
    /\ env' = IF env.second + TickSeconds < 60
              THEN [env EXCEPT !.second = @ + TickSeconds, !.ticks = @ + 1]
              ELSE [minute |-> env.minute + 1, second |-> env.second + TickSeconds - 60,
                    ticks |-> env.ticks + 1]
    /\ redis' = AgeBy(redis, TickSeconds)
    /\ UNCHANGED <<db, req, hist>>

RateInit ==
    /\ redis = <<>>
    /\ db = <<>>
    /\ req = [c \in Callers |-> [pc |-> "idle", key |-> <<>>, res |-> <<>>]]
    /\ env = [minute |-> 0, second |-> 0, ticks |-> 0]
    /\ hist = [calls |-> [w \in RateUsers \X RateMinutes |-> 0],
               n |-> 0,
               ret |-> RateResult("", 0, 0, 0, 0)]

RateNext ==
    \/ \E c \in Callers, u \in RateUsers : RateIncr(c, u)
    \/ \E c \in Callers : RateExpire(c)
    \/ RateTick

SpecRate == RateInit /\ [][RateNext]_vars

\* C38: a call of check_rate_limit(u) changes only the key of u's current window:
\* its INCR and its EXPIRE leave every other key of the store as it was, and a
\* call is denied only when the calls of its own user in its own window exceed
\* RATE_LIMIT, whatever the other users did.
C38_OnlyOwnCounter ==
    /\ [][hist'.n # hist.n =>
            \E u \in RateUsers :
                /\ hist'.calls = [hist.calls EXCEPT ![<<u, env.minute>>] = @ + 1]
                /\ DOMAIN redis' = DOMAIN redis \cup {RateKey(u, env.minute)}
                /\ \A k \in DOMAIN redis \ {RateKey(u, env.minute)} : redis'[k] = redis[k]]_vars
    /\ [][\A c \in Callers :
            (req[c].pc = "expire" /\ req'[c].pc = "idle") =>
                /\ DOMAIN redis' = DOMAIN redis
                /\ \A k \in DOMAIN redis \ {req[c].key} : redis'[k] = redis[k]]_vars
    /\ [](~hist.ret.allowed =>
            hist.calls[<<hist.ret.user, hist.ret.minute>>] > RATE_LIMIT)

\* C38 witness: one user has used up the limit and been denied, and the call of
\* the other user that came next in the same window is its first and is allowed
C38_Witness ==
    \E u \in RateUsers :
        /\ hist.calls[<<u, env.minute>>] > RATE_LIMIT
        /\ hist.ret.user # u
        /\ hist.ret.minute = env.minute
        /\ hist.ret.allowed
        /\ hist.ret.current = 1

\* C5: within one window the first RATE_LIMIT calls of a user are allowed and every
\* later call is denied, and the first call of the next window is allowed with
\* current = 1: every result carries the call's rank in its window as current, and
\* is allowed exactly when that rank is at most RATE_LIMIT.
C5_FirstLAllowed ==
    hist.ret.ordinal > 0 =>
        /\ hist.ret.current = hist.ret.ordinal
        /\ hist.ret.allowed = (hist.ret.ordinal <= RATE_LIMIT)
        /\ hist.ret.ordinal = 1 => (hist.ret.allowed /\ hist.ret.current = 1)

\* C5 witness: a user who made more than RATE_LIMIT calls in window 0 (the last one
\* denied) is allowed in window 1 with current = 1.
C5_Witness ==
    /\ hist.ret.minute = 1
    /\ hist.ret.ordinal = 1
    /\ hist.ret.allowed
    /\ hist.ret.current = 1
    /\ hist.calls[<<hist.ret.user, 0>>] > RATE_LIMIT

\* C5 witness of the denial: call RATE_LIMIT + 1 of a window was just denied.
C5_DeniedReached ==
    /\ hist.ret.ordinal = RATE_LIMIT + 1
    /\ ~hist.ret.allowed

RateResults == {hist.ret} \cup {req[c].res : c \in {d \in Callers : req[d].pc = "expire"}}

\* C16: every result has allowed = (current <= RATE_LIMIT) and remaining =
\* RATE_LIMIT - current, cut off at 0; remaining is never negative and is 0 on
\* every denied call.
C16_AllowedAndRemaining ==
    \A r \in RateResults :
        /\ r.allowed = (r.current <= RATE_LIMIT)
        /\ r.remaining = (IF r.current <= RATE_LIMIT THEN RATE_LIMIT - r.current ELSE 0)
        /\ r.remaining >= 0
        /\ ~r.allowed => r.remaining = 0

C16_Witness ==
    /\ hist.ret.current = RATE_LIMIT + 2
    /\ ~hist.ret.allowed
    /\ hist.ret.remaining = 0

(***************************************************************************)
(* The rate limiter, one request after the other, over a store that can    *)
(* fail: rate_limit_dependency calls check_rate_limit and lets the handler *)
(* get_status run only when a result with allowed = True came back.  fail  *)
(* is the number of the store command that raises (1 the INCR, 2 the       *)
(* EXPIRE), 0 for none.  hist.allowed[m] counts the calls allowed in       *)
(* minute m, hist.first and hist.last are the times, in seconds, of the    *)
(* first and of the latest allowed call.                                   *)
(***************************************************************************)
LimitUser == "10.0.0.1"
MaxCalls == 2 * RATE_LIMIT + MaxExtra
NoTime == -1
LimitFails == 0..2

\* check_rate_limit over a store whose command number fail raises
check_rate_limit(store, user_id, minute, second, fail) ==
    LET key == RateKey(user_id, minute)
        r == Incr(store, key)
    IN  IF fail = 1 THEN [store |-> store, raised |-> TRUE, res |-> RateResult(user_id, minute, second, 0, 0)]
        ELSE IF r.n = 1 /\ fail = 2
             THEN [store |-> r.store, raised |-> TRUE, res |-> RateResult(user_id, minute, second, 0, 0)]
        ELSE [store |-> IF r.n = 1 THEN Expire(r.store, key, WINDOW_SECONDS) ELSE r.store,
              raised |-> FALSE,
              res |-> RateResult(user_id, minute, second, r.n, r.n)]

\* a dependency that lets the request through when the store fails
DependencyFailOpen(out) ==
    IF out.raised THEN [status |-> 200, executed |-> TRUE, produced |-> TRUE, allowed |-> TRUE]
    ELSE [status |-> IF out.res.allowed THEN 200 ELSE 429, executed |-> out.res.allowed,
          produced |-> TRUE, allowed |-> out.res.allowed]

\* rate_limit_dependency, then get_status: an exception of check_rate_limit leaves
\* the dependency (the response is a 500), a denied result raises the 429
rate_limit_dependency(out) ==
    IF out.raised THEN [status |-> 500, executed |-> FALSE, produced |-> FALSE, allowed |-> FALSE]
    ELSE IF ~out.res.allowed
         THEN [status |-> 429, executed |-> FALSE, produced |-> TRUE, allowed |-> FALSE]
    ELSE [status |-> 200, executed |-> TRUE, produced |-> TRUE, allowed |-> TRUE]

LimitNow == 60 * env.minute + env.second

LimitCall(fail) ==
    LET out == check_rate_limit(redis, LimitUser, env.minute, env.second, fail)
        d == rate_limit_dependency(out)
    IN  /\ hist.n < MaxCalls
        /\ redis' = out.store
        /\ hist' = [allowed |-> [hist.allowed EXCEPT ![env.minute] = IF d.executed THEN @ + 1 ELSE @],
                    first |-> IF d.executed /\ hist.first = NoTime THEN LimitNow ELSE hist.first,
                    last |-> IF d.executed THEN LimitNow ELSE hist.last,
                    n |-> hist.n + 1,
                    ret |-> [status |-> d.status, executed |-> d.executed, produced |-> d.produced,
                             allowed |-> d.allowed, failed |-> out.raised, fail |-> fail]]
        /\ UNCHANGED <<db, req, env>>

\* TickSeconds pass on the wall clock
LimitTick ==
    /\ env.ticks < MaxTicks
    /\ env' = IF env.second + TickSeconds < 60
              THEN [env EXCEPT !.second = @ + TickSeconds, !.ticks = @ + 1]
              ELSE [minute |-> env.minute + 1, second |-> env.second + TickSeconds - 60,
                    ticks |-> env.ticks + 1]
    /\ redis' = AgeBy(redis, TickSeconds)
    /\ UNCHANGED <<db, req, hist>>

LimitInit ==
    /\ redis = <<>>
    /\ db = <<>>
    /\ req = <<>>
    /\ env = [minute |-> 0, second |-> 0, ticks |-> 0]
    /\ hist = [allowed |-> [m \in RateMinutes |-> 0], first |-> NoTime, last |-> NoTime, n |-> 0,
               ret |-> [status |-> 0, executed |-> FALSE, produced |-> FALSE,
                        allowed |-> FALSE, failed |-> FALSE, fail |-> 0]]

LimitNext ==
    \/ \E fail \in LimitFails : LimitCall(fail)
    \/ LimitTick

SpecLimit == LimitInit /\ [][LimitNext]_vars

\* C17: the calls of one user allowed in a window are at most RATE_LIMIT, and
\* those allowed in two adjacent windows are at most 2 * RATE_LIMIT.
C17_TwoWindowBound ==
    /\ \A m \in RateMinutes : hist.allowed[m] <= RATE_LIMIT
    /\ \A m, m2 \in RateMinutes : m2 = m + 1 => hist.allowed[m] + hist.allowed[m2] <= 2 * RATE_LIMIT

\* C17 witness: a burst across the window boundary: 2 * RATE_LIMIT calls were
\* allowed within less than one window length.
C17_Witness ==
    /\ hist.allowed[0] = RATE_LIMIT
    /\ hist.allowed[1] = RATE_LIMIT
    /\ hist.last - hist.first < WINDOW_SECONDS

\* C18: when the INCR or the EXPIRE of check_rate_limit raises, the request is
\* not served: get_status does not run and no result is produced.
C18_FailClosed ==
    hist.ret.failed => (~hist.ret.executed /\ ~hist.ret.produced /\ ~hist.ret.allowed
                        /\ hist.ret.status = 500)

\* C18 witness: the EXPIRE of the first call of a window failed after its INCR.
C18_Witness ==
    /\ hist.ret.failed
    /\ hist.ret.fail = 2
    /\ ~hist.ret.executed
    /\ \E m \in RateMinutes : Exists(redis, RateKey(LimitUser, m))
                              /\ redis[RateKey(LimitUser, m)].ttl = NoExpiry

(***************************************************************************)
(* invalidation/cache.py (CacheManager) and db-caching/cache.py            *)
(* (RedisCache).  A method is a sequence of store commands inside          *)
(* try/except.  Its model is an operator from the store to the outcome     *)
(* [store, value, refresh, count, raised]: the store it leaves, what it    *)
(* returns (value, and needs_refresh for get_with_swr), the number of      *)
(* entries it removed, whether a store command raised (failed) and         *)
(* whether an exception left the method (raised).  The                     *)
(* argument fail is the number of the method's first store command that    *)
(* raises (connection lost), 0 when none does.  Time is in seconds.        *)
(***************************************************************************)
Miss == "None"
default_ttl == 300

Out(store, v) ==
    [store |-> store, value |-> v, refresh |-> FALSE, count |-> 0, queries |-> 0,
     failed |-> FALSE, raised |-> FALSE]
Raise(store) ==
    [store |-> store, value |-> Miss, refresh |-> FALSE, count |-> 0, queries |-> 0,
     failed |-> TRUE, raised |-> TRUE]

\* what an except clause returns: None, or (None, True) in get_with_swr
ReturnNone == [value |-> Miss, refresh |-> FALSE]
ReturnNoneTrue == [value |-> Miss, refresh |-> TRUE]

\* a method without its except clause
NoExcept(r, h) == r

\* except Exception as e: print(...); return
Except(r, h) ==
    IF r.raised THEN [Out(r.store, h.value) EXCEPT !.refresh = h.refresh, !.failed = TRUE] ELSE r

\* SETEX key seconds value: the server refuses an expire time that is not positive
SetEx(store, k, t, v) ==
    IF t <= 0 THEN [err |-> TRUE, store |-> store]
    ELSE [err |-> FALSE, store |-> Put(store, k, v, t)]

\* SADD key member: a new set has no expiry, an existing one keeps its own
SAdd(store, k, x) ==
    IF Exists(store, k) THEN [store EXCEPT ![k].val = @ \cup {x}]
    ELSE Put(store, k, {x}, NoExpiry)

\* SMEMBERS key: a key that does not exist is the empty set
SMembers(store, k) == IF Exists(store, k) THEN store[k].val ELSE {}

\* DEL key [key ...]
DelAll(store, ks) == [x \in DOMAIN store \ ks |-> store[x]]

\* TTL key: -2 for a key that does not exist, -1 for one without expiry
Ttl(store, k) == IF Exists(store, k) THEN store[k].ttl ELSE -2

\* RedisCache.get / CacheManager.get_with_ttl: GET, (TTL for the log line), json.loads
get(store, key, fail) ==
    Except(IF fail = 1 THEN Raise(store)
           ELSE IF Exists(store, key) THEN Out(store, store[key].val)
           ELSE Out(store, Miss),
           ReturnNone)

get_with_ttl(store, key, fail) ==
    Except(IF fail = 1 THEN Raise(store)
           ELSE IF Exists(store, key)
                THEN (IF fail = 2 THEN Raise(store) ELSE Out(store, store[key].val))
           ELSE Out(store, Miss),
           ReturnNone)

\* RedisCache.set: ttl = ttl or self.default_ttl; SETEX
set(store, key, value, ttl, fail) ==
    LET t == IF ttl = 0 THEN default_ttl ELSE ttl
        r == SetEx(store, key, t, value)
    IN  Except(IF fail = 1 \/ r.err THEN Raise(store) ELSE Out(r.store, Miss), ReturnNone)

\* RedisCache.delete / CacheManager.invalidate_explicit: DEL
delete(store, key, fail) ==
    Except(IF fail = 1 THEN Raise(store)
           ELSE [Out(Del(store, key), Miss) EXCEPT !.count = IF Exists(store, key) THEN 1 ELSE 0],
           ReturnNone)

invalidate_explicit(store, key, fail) == delete(store, key, fail)

\* CacheManager.set_with_ttl / update_write_through / refresh_swr: SETEX
set_with_ttl(store, key, value, ttl, fail) ==
    LET r == SetEx(store, key, ttl, value)
    IN  Except(IF fail = 1 \/ r.err THEN Raise(store) ELSE Out(r.store, Miss), ReturnNone)

\* CacheManager.get_with_swr: GET, TTL; (value, needs_refresh)
get_with_swr(store, key, stale_threshold, fail) ==
    LET miss == [Out(store, Miss) EXCEPT !.refresh = TRUE]
        ttl == Ttl(store, key)
    IN  Except(IF fail = 1 THEN Raise(store)
               ELSE IF ~Exists(store, key) THEN miss
               ELSE IF fail = 2 THEN Raise(store)
               ELSE IF 0 < ttl /\ ttl < stale_threshold
                    THEN [Out(store, store[key].val) EXCEPT !.refresh = TRUE]
               ELSE IF ttl > 0 THEN Out(store, store[key].val)
               ELSE miss,
               ReturnNoneTrue)

(***************************************************************************)
(* Cache tags (CacheManager.set_with_tags, invalidate_by_tag).  The set    *)
(* "tag:<t>" holds the keys written under t and gets the expiry ttl + 60   *)
(* of the latest write under t.                                            *)
(***************************************************************************)
TagKeys == {"products:category:1", "product:production:1"}
Tags == {"category:1", "all_products"}
TagLists == {<<>>, <<"category:1">>, <<"all_products">>, <<"category:1", "all_products">>}
TagTtls == {10, default_ttl}
TagTickSeconds == 150
TagSetKey(tag) == "tag:" \o tag
Range(f) == {f[i] : i \in DOMAIN f}

\* for tag in tags: SADD tag:<tag> key; EXPIRE tag:<tag> ttl + 60
\* (n is the number of the next store command of the method)
RECURSIVE TagLoop(_, _, _, _, _, _)
TagLoop(store, key, tags, ttl, n, fail) ==
    IF tags = <<>> THEN Out(store, Miss)
    ELSE IF fail = n THEN Raise(store)
    ELSE LET s1 == SAdd(store, TagSetKey(Head(tags)), key)
         IN  IF fail = n + 1 THEN Raise(s1)
             ELSE TagLoop(Expire(s1, TagSetKey(Head(tags)), ttl + 60),
                          key, Tail(tags), ttl, n + 2, fail)

\* CacheManager.set_with_tags / set_combined
set_with_tags(store, key, value, tags, ttl, fail) ==
    LET r == SetEx(store, key, ttl, value)
    IN  Except(IF fail = 1 \/ r.err THEN Raise(store)
               ELSE TagLoop(r.store, key, tags, ttl, 2, fail),
               ReturnNone)

\* an invalidation that removes the tag set and leaves its members cached
InvalidateTagSetOnly(store, tag, fail) ==
    [Out(Del(store, TagSetKey(tag)), Miss) EXCEPT !.count = Cardinality(SMembers(store, TagSetKey(tag)))]

\* an invalidation that clears the whole keyspace when the tag has no members
InvalidateEmptyFlushes(store, tag, fail) ==
    IF SMembers(store, TagSetKey(tag)) = {} THEN Out(<<>>, Miss)
    ELSE [Out(Del(DelAll(store, SMembers(store, TagSetKey(tag))), TagSetKey(tag)), Miss)
             EXCEPT !.count = Cardinality(SMembers(store, TagSetKey(tag)))]

\* CacheManager.invalidate_by_tag: SMEMBERS; if keys: DEL *keys; DEL tag:<tag>
invalidate_by_tag(store, tag, fail) ==
    LET keys == SMembers(store, TagSetKey(tag))
    IN  Except(IF fail = 1 THEN Raise(store)
               ELSE IF keys = {} THEN Out(store, Miss)
               ELSE IF fail = 2 THEN Raise(store)
               ELSE IF fail = 3 THEN Raise(DelAll(store, keys))
               ELSE [Out(Del(DelAll(store, keys), TagSetKey(tag)), Miss)
                        EXCEPT !.count = Cardinality(keys)],
               ReturnNone)

\* hist.tags[k]: the tags under which the live entry k was written;
\* hist.ttls[t]: the ttl arguments of the writes made under t
LiveTags(g, store) == [k \in TagKeys |-> IF Exists(store, k) THEN g[k] ELSE {}]
\* hist.ret: the last call, with the keys that were cached under its tag before it
TagRet(op, tag, count, keys) == [op |-> op, tag |-> tag, count |-> count, keys |-> keys]

SetWithTags(k, tags, ttl) ==
    LET r == set_with_tags(redis, k, "v1", tags, ttl, 0)
    IN  /\ redis' = r.store
        /\ hist' = [tags |-> LiveTags([hist.tags EXCEPT ![k] = Range(tags)], r.store),
                    ttls |-> [t \in Tags |-> IF t \in Range(tags) THEN hist.ttls[t] \cup {ttl} ELSE hist.ttls[t]],
                    ret |-> TagRet("set_with_tags", "", 0, {})]
        /\ UNCHANGED <<db, req, env>>

SetWithTtl(k, ttl) ==
    LET r == set_with_ttl(redis, k, "v1", ttl, 0)
    IN  /\ redis' = r.store
        /\ hist' = [hist EXCEPT !.tags = LiveTags([hist.tags EXCEPT ![k] = {}], r.store),
                                !.ret = TagRet("set_with_ttl", "", 0, {})]
        /\ UNCHANGED <<db, req, env>>

InvalidateExplicit(k) ==
    LET r == invalidate_explicit(redis, k, 0)
    IN  /\ redis' = r.store
        /\ hist' = [hist EXCEPT !.tags = LiveTags(hist.tags, r.store),
                                !.ret = TagRet("invalidate_explicit", "", r.count, {})]
        /\ UNCHANGED <<db, req, env>>

InvalidateByTag(t) ==
    LET r == invalidate_by_tag(redis, t, 0)
    IN  /\ redis' = r.store
        /\ hist' = [hist EXCEPT !.tags = LiveTags(hist.tags, r.store),
                                !.ret = TagRet("invalidate_by_tag", t, r.count,
                                               {k \in TagKeys : t \in hist.tags[k]})]
        /\ UNCHANGED <<db, req, env>>

\* TagTickSeconds seconds pass
TagTick ==
    /\ redis # <<>>
    /\ redis' = AgeBy(redis, TagTickSeconds)
    /\ hist' = [hist EXCEPT !.tags = LiveTags(hist.tags, redis'),
                            !.ret = TagRet("tick", "", 0, {})]
    /\ UNCHANGED <<db, req, env>>

TagInit ==
    /\ redis = <<>>
    /\ db = <<>>
    /\ req = <<>>
    /\ env = <<>>
    /\ hist = [tags |-> [k \in TagKeys |-> {}],
               ttls |-> [t \in Tags |-> {}],
               ret |-> TagRet("init", "", 0, {})]

TagNext ==
    \/ \E k \in TagKeys, tags \in TagLists, ttl \in TagTtls : SetWithTags(k, tags, ttl)
    \/ \E k \in TagKeys, ttl \in TagTtls : SetWithTtl(k, ttl)
    \/ \E k \in TagKeys : InvalidateExplicit(k)
    \/ \E t \in Tags : InvalidateByTag(t)
    \/ TagTick

SpecTag == TagInit /\ [][TagNext]_vars

\* C6: when the entries under tag t were written by set_with_tags calls of one
\* ttl, invalidate_by_tag(t) leaves every entry cached under t absent and the
\* tag set tag:<t> absent, so the next read of each of these keys is a miss.
SameTtl(t) == Cardinality(hist.ttls[t]) <= 1

C11_TagIndexOutlivesMembers ==
    \A k \in TagKeys : \A t \in hist.tags[k] :
        /\ Exists(redis, TagSetKey(t))
        /\ Ttl(redis, TagSetKey(t)) > Ttl(redis, k)

\* C12: invalidate_by_tag(t) on a tag whose set is absent (never written,
\* emptied by an invalidation, or expired) raises nothing, removes nothing and
\* leaves every entry and every other tag set as they were.
C12_EmptyTagNoOp ==
    [][(hist'.ret.op = "invalidate_by_tag" /\ SMembers(redis, TagSetKey(hist'.ret.tag)) = {}) =>
           /\ redis' = redis
           /\ hist'.ret.count = 0
           /\ ~invalidate_by_tag(redis, hist'.ret.tag, 0).raised]_vars

C12_Witness ==
    /\ hist.ret.op = "invalidate_by_tag"
    /\ hist.ret.count = 0
    /\ \E k \in TagKeys : Exists(redis, k) /\ hist.ret.tag \in hist.tags[k]
    /\ \E t \in Tags : t # hist.ret.tag /\ Exists(redis, TagSetKey(t))

(***************************************************************************)
(* Negative caching (cache-penetration/main.py).  The handlers are plain   *)
(* functions called one after the other; a cached value is the JSON text   *)
(* of a user, <<"json", id>>, or the marker "NULL".  Time is in seconds.   *)
(***************************************************************************)
VALID_IDS == 1..100
UserIds == {0, 100, 101}
MaxLookups == 4
NegTickSeconds == 30
NegativeEx == 60
PositiveEx == 300
NULL == <<"NULL">>
NoUser == <<"none">>
UnsafeKey(user_id) == <<"user", "unsafe", user_id>>
SafeKey(user_id) == <<"user", "safe", user_id>>
UserJson(user_id) == <<"json", user_id>>

\* a database that finds no user
QueryFindsNobody(stats, user_id) ==
    [stats |-> [stats EXCEPT !.db_queries = @ + 1], user |-> NoUser]

\* query_database: counts the query, returns the user or None
query_database(stats, user_id) ==
    [stats |-> [stats EXCEPT !.db_queries = @ + 1],
     user |-> IF user_id \in VALID_IDS THEN UserJson(user_id) ELSE NoUser]

\* get_user_unsafe: "not found" is not cached
get_user_unsafe(store, stats, user_id) ==
    IF Exists(store, UnsafeKey(user_id))
    THEN [store |-> store, stats |-> [stats EXCEPT !.cache_hits = @ + 1],
          source |-> "cache", data |-> store[UnsafeKey(user_id)].val]
    ELSE LET q == query_database(stats, user_id)
         IN  [store |-> IF q.user # NoUser
                        THEN Put(store, UnsafeKey(user_id), q.user, PositiveEx)
                        ELSE store,
              stats |-> q.stats, source |-> "database", data |-> q.user]

\* a safe lookup that does not write the "NULL" marker
GetUserNoMarker(store, stats, user_id) ==
    [get_user_unsafe(store, stats, user_id) EXCEPT !.store = store]

\* get_user_safe: "not found" is cached as "NULL" for 60 s
get_user_safe(store, stats, user_id) ==
    IF Exists(store, SafeKey(user_id))
    THEN IF store[SafeKey(user_id)].val = NULL
         THEN [store |-> store, stats |-> [stats EXCEPT !.negative_cache_hits = @ + 1],
               source |-> "negative_cache", data |-> NoUser]
         ELSE [store |-> store, stats |-> [stats EXCEPT !.cache_hits = @ + 1],
               source |-> "cache", data |-> store[SafeKey(user_id)].val]
    ELSE LET q == query_database(stats, user_id)
         IN  [store |-> IF q.user # NoUser
                        THEN Put(store, SafeKey(user_id), q.user, PositiveEx)
                        ELSE Put(store, SafeKey(user_id), NULL, NegativeEx),
              stats |-> q.stats, source |-> "database", data |-> q.user]

\* hist.run[id]: the safe lookups of id and the database queries they made
\* since the first of them, and the seconds passed since that first lookup;
\* the run ends when NegativeEx seconds have passed
NoRun == [lookups |-> 0, queries |-> 0, age |-> 0]
NoStats == [db_queries |-> 0, cache_hits |-> 0, negative_cache_hits |-> 0]

GetUserSafe(user_id) ==
    LET r == get_user_safe(redis, db, user_id)
    IN  /\ env.lookups < MaxLookups
        /\ redis' = r.store
        /\ db' = r.stats
        /\ env' = [env EXCEPT !.lookups = @ + 1]
        /\ hist' = [run |-> [hist.run EXCEPT ![user_id].lookups = @ + 1,
                                             ![user_id].queries = @ + r.stats.db_queries - db.db_queries],
                    ret |-> [op |-> "get_user_safe", id |-> user_id, source |-> r.source, data |-> r.data]]
        /\ UNCHANGED req

GetUserUnsafe(user_id) ==
    LET r == get_user_unsafe(redis, db, user_id)
    IN  /\ env.lookups < MaxLookups
        /\ redis' = r.store
        /\ db' = r.stats
        /\ env' = [env EXCEPT !.lookups = @ + 1]
        /\ hist' = [hist EXCEPT !.ret = [op |-> "get_user_unsafe", id |-> user_id,
                                         source |-> r.source, data |-> r.data]]
        /\ UNCHANGED req

\* clear_cache: FLUSHDB and reset of the counters
ClearCache ==
    /\ redis # <<>>
    /\ redis' = <<>>
    /\ db' = NoStats
    /\ hist' = [run |-> [i \in UserIds |-> NoRun],
                ret |-> [op |-> "clear_cache", id |-> 0, source |-> "", data |-> NoUser]]
    /\ UNCHANGED <<req, env>>

\* NegTickSeconds seconds pass
NegTick ==
    /\ redis # <<>>
    /\ redis' = AgeBy(redis, NegTickSeconds)
    /\ hist' = [run |-> [i \in UserIds |->
                            IF hist.run[i].lookups = 0 \/ hist.run[i].age + NegTickSeconds >= NegativeEx
                            THEN NoRun
                            ELSE [hist.run[i] EXCEPT !.age = @ + NegTickSeconds]],
                ret |-> [op |-> "tick", id |-> 0, source |-> "", data |-> NoUser]]
    /\ UNCHANGED <<db, req, env>>

NegInit ==
    /\ redis = <<>>
    /\ db = NoStats
    /\ req = <<>>
    /\ env = [lookups |-> 0]
    /\ hist = [run |-> [i \in UserIds |-> NoRun],
               ret |-> [op |-> "init", id |-> 0, source |-> "", data |-> NoUser]]

NegNext ==
    \/ \E i \in UserIds : GetUserSafe(i)
    \/ \E i \in UserIds : GetUserUnsafe(i)
    \/ ClearCache
    \/ NegTick

SpecNeg == NegInit /\ [][NegNext]_vars

\* C7: for a user id that does not exist, the sequential get_user_safe lookups
\* made within 60 s of the first one call query_database exactly once, and
\* every lookup after the first is answered from the negative cache.
C7_NegativeCaching ==
    \A i \in UserIds \ VALID_IDS :
        hist.run[i].lookups >= 1 =>
            /\ hist.run[i].queries = 1
            /\ (hist.run[i].lookups >= 2 /\ hist.ret.op = "get_user_safe" /\ hist.ret.id = i)
                   => (hist.ret.source = "negative_cache" /\ hist.ret.data = NoUser)

C7_Witness ==
    \E i \in UserIds \ VALID_IDS :
        /\ hist.run[i].lookups >= 3
        /\ hist.run[i].age > 0
        /\ hist.run[i].queries = 1
        /\ hist.ret.op = "get_user_safe" /\ hist.ret.id = i
        /\ hist.ret.source = "negative_cache"

\* C27: the marker "NULL" differs from every value cached for an existing user:
\* under user:safe:{id} a marker stands only for an id that does not exist and a
\* user's JSON only for an id that exists, get_user_safe reports "not found" from
\* the cache only for an id that does not exist and returns as cached data only
\* the user's JSON, never the marker; a marker lives at most 60 s, a user entry
\* at most 300 s, and 60 is less than 300 and one fifth of it.
C27_MarkerDistinct ==
    /\ \A i \in VALID_IDS : UserJson(i) # NULL
    /\ NegativeEx < PositiveEx
    /\ 5 * NegativeEx = PositiveEx
    /\ \A i \in UserIds :
          Exists(redis, SafeKey(i)) =>
             IF redis[SafeKey(i)].val = NULL
             THEN i \notin VALID_IDS /\ redis[SafeKey(i)].ttl <= NegativeEx
             ELSE /\ i \in VALID_IDS
                  /\ redis[SafeKey(i)].val = UserJson(i)
                  /\ redis[SafeKey(i)].ttl <= PositiveEx
    /\ hist.ret.op = "get_user_safe" =>
          /\ hist.ret.source = "negative_cache" => (hist.ret.id \notin VALID_IDS /\ hist.ret.data = NoUser)
          /\ hist.ret.source = "cache" =>
                (hist.ret.id \in VALID_IDS /\ hist.ret.data = UserJson(hist.ret.id)
                 /\ hist.ret.data # NULL)
          /\ hist.ret.data # NULL
          /\ hist.ret.id \in VALID_IDS => hist.ret.data = UserJson(hist.ret.id)

\* C27 witness: an existing user is served from the cache while a marker for a
\* missing id is cached, the user entry with more life left than a marker can have
C27_Witness ==
    /\ hist.ret.op = "get_user_safe"
    /\ hist.ret.source = "cache"
    /\ hist.ret.id \in VALID_IDS
    /\ \E i \in UserIds \ VALID_IDS :
          Exists(redis, SafeKey(i)) /\ redis[SafeKey(i)].val = NULL
    /\ redis[SafeKey(hist.ret.id)].ttl > NegativeEx

(***************************************************************************)
(* Cache operations over a store that can fail (db-caching/cache.py,       *)
(* db-caching/main.py, invalidation/cache.py).  Every call names the store *)
(* command that raises, if any.  db is the posts table.  Time is in        *)
(* seconds.                                                                *)
(***************************************************************************)
PostIds == {"1"}
PostRows == {"v1", "v2"}
CacheTtls == {-1, 0, 20, 60}
MaxFail == 3
CacheTickSeconds == 150
\* the store commands a call can fail at: methods of one, two and more commands
Fails1 == 0..1
Fails2 == 0..2
Fails == 0..MaxFail
PostKey(post_id) == "post:" \o post_id
PostKeys == {PostKey(i) : i \in PostIds}
PostTag == "category:1"
ProductTtl == 60
ProductTtlKey(product_id) == "product:ttl:" \o product_id
stale_threshold == 30

\* a row that is not in its table, and the answer HTTPException(404)
NoRow == "no row"
NotFound == "404"

\* a read path that returns the row without caching it
GetPostNoFill(store, rows, post_id, fail1, fail2) ==
    LET c == get(store, PostKey(post_id), fail1)
    IN  IF c.value # Miss THEN c ELSE [c EXCEPT !.value = rows[post_id], !.queries = 1]

\* get_post: cache.get_post; on a miss the row is read from the database (queries
\* counts the database queries of the call), cached with cache.set_post(ttl=300)
\* and returned
get_post(store, rows, post_id, fail1, fail2) ==
    LET c == get(store, PostKey(post_id), fail1)
        w == set(c.store, PostKey(post_id), rows[post_id], default_ttl, fail2)
    IN  IF c.raised THEN c
        ELSE IF c.value # Miss THEN c
        ELSE IF rows[post_id] = NoRow THEN [c EXCEPT !.value = NotFound, !.queries = 1]
        ELSE IF w.raised THEN [w EXCEPT !.queries = 1]
        ELSE [w EXCEPT !.value = rows[post_id], !.queries = 1, !.failed = c.failed \/ w.failed]

\* get_product_ttl: cache.get_with_ttl; on a miss the row is read from the
\* database, cached with cache.set_with_ttl(ttl=60) and returned
get_product_ttl(store, rows, product_id, fail1, fail2) ==
    LET c == get_with_ttl(store, ProductTtlKey(product_id), fail1)
        w == set_with_ttl(c.store, ProductTtlKey(product_id), rows[product_id], ProductTtl, fail2)
    IN  IF c.raised THEN c
        ELSE IF c.value # Miss THEN c
        ELSE IF w.raised THEN [w EXCEPT !.queries = 1]
        ELSE [w EXCEPT !.value = rows[product_id], !.queries = 1, !.failed = c.failed \/ w.failed]

\* hist.ret: the last call, its arguments and its outcome; absent tells that
\* the key held no entry before the call
CacheRet(op, key, r, ttl) ==
    [op |-> op, key |-> key, value |-> r.value, refresh |-> r.refresh,
     failed |-> r.failed, raised |-> r.raised, ttl |-> ttl, queries |-> r.queries,
     absent |-> ~Exists(redis, key)]

Call(op, key, r, ttl) ==
    /\ redis' = r.store
    /\ hist' = [ret |-> CacheRet(op, key, r, ttl)]
    /\ UNCHANGED <<db, req, env>>

CallGet(k, fail) == Call("get", k, get(redis, k, fail), 0)
CallSet(k, v, ttl, fail) == Call("set", k, set(redis, k, v, ttl, fail), ttl)
CallDelete(k, fail) == Call("delete", k, delete(redis, k, fail), 0)
CallGetWithTtl(k, fail) == Call("get_with_ttl", k, get_with_ttl(redis, k, fail), 0)
CallSetWithTtl(k, v, ttl, fail) == Call("set_with_ttl", k, set_with_ttl(redis, k, v, ttl, fail), ttl)
CallGetWithSwr(k, fail) == Call("get_with_swr", k, get_with_swr(redis, k, stale_threshold, fail), 0)
CallSetWithTags(k, v, ttl, fail) ==
    Call("set_with_tags", k, set_with_tags(redis, k, v, <<PostTag>>, ttl, fail), ttl)
CallInvalidateExplicit(k, fail) ==
    Call("invalidate_explicit", k, invalidate_explicit(redis, k, fail), 0)
CallInvalidateByTag(fail) ==
    Call("invalidate_by_tag", TagSetKey(PostTag), invalidate_by_tag(redis, PostTag, fail), 0)
GetPost(i, fail1, fail2) ==
    Call("get_post", PostKey(i), get_post(redis, db, i, fail1, fail2), default_ttl)
GetProductTtl(i, fail1, fail2) ==
    Call("get_product_ttl", ProductTtlKey(i), get_product_ttl(redis, db, i, fail1, fail2), ProductTtl)

\* update_post: the row is committed, then cache.delete_post
UpdatePost(i, v, fail) ==
    LET r == delete(redis, PostKey(i), fail)
    IN  /\ db' = [db EXCEPT ![i] = v]
        /\ redis' = r.store
        /\ hist' = [ret |-> CacheRet("update_post", PostKey(i), r, 0)]
        /\ UNCHANGED <<req, env>>

\* CacheTickSeconds seconds pass
CacheTick ==
    /\ redis # <<>>
    /\ redis' = AgeBy(redis, CacheTickSeconds)
    /\ hist' = [ret |-> CacheRet("tick", PostKey("1"), Out(redis', Miss), 0)]
    /\ UNCHANGED <<db, req, env>>

CacheInit ==
    /\ redis = <<>>
    /\ db \in [PostIds -> PostRows]
    /\ req = <<>>
    /\ env = <<>>
    /\ hist = [ret |-> CacheRet("init", PostKey("1"), Out(redis, Miss), 0)]

CacheNext ==
    \/ \E k \in PostKeys, fail \in Fails1 : CallGet(k, fail)
    \/ \E k \in PostKeys, v \in PostRows, ttl \in CacheTtls, fail \in Fails1 : CallSet(k, v, ttl, fail)
    \/ \E k \in PostKeys, fail \in Fails1 : CallDelete(k, fail)
    \/ \E k \in PostKeys, fail \in Fails2 : CallGetWithTtl(k, fail)
    \/ \E k \in PostKeys, v \in PostRows, ttl \in CacheTtls, fail \in Fails1 : CallSetWithTtl(k, v, ttl, fail)
    \/ \E k \in PostKeys, fail \in Fails2 : CallGetWithSwr(k, fail)
    \/ \E k \in PostKeys, v \in PostRows, ttl \in CacheTtls, fail \in Fails : CallSetWithTags(k, v, ttl, fail)
    \/ \E k \in PostKeys, fail \in Fails1 : CallInvalidateExplicit(k, fail)
    \/ \E fail \in Fails : CallInvalidateByTag(fail)
    \/ \E i \in PostIds, fail1 \in Fails1, fail2 \in Fails1 : GetPost(i, fail1, fail2)
    \/ \E i \in PostIds, fail1 \in Fails2, fail2 \in Fails1 : GetProductTtl(i, fail1, fail2)
    \/ \E i \in PostIds, v \in PostRows, fail \in Fails1 : UpdatePost(i, v, fail)
    \/ CacheTick

SpecCache == CacheInit /\ [][CacheNext]_vars

ReadOps == {"get", "get_with_ttl", "get_with_swr"}
WriteOps == {"set", "delete", "set_with_ttl", "set_with_tags", "invalidate_explicit",
             "invalidate_by_tag", "update_post"}

\* C9: no cache operation lets an exception of the store reach its caller;
\* when a store command raises, a read returns a miss (get_with_swr with
\* needs_refresh), a write or delete returns normally, and get_post returns
\* the row read from the database.
C9_NoFailurePropagates ==
    /\ ~hist.ret.raised
    /\ hist.ret.failed =>
        /\ hist.ret.op \in ReadOps \cup WriteOps => hist.ret.value = Miss
        /\ hist.ret.op = "get_with_swr" => hist.ret.refresh
        /\ hist.ret.op = "get_post" =>
               \E i \in PostIds : hist.ret.key = PostKey(i) /\ hist.ret.value = db[i]

C9_Witness ==
    /\ hist.ret.op = "get_post"
    /\ hist.ret.failed
    /\ ~hist.ret.absent
    /\ \E i \in PostIds : hist.ret.key = PostKey(i) /\ hist.ret.value = db[i]
                          /\ redis[PostKey(i)].val # db[i]

\* C10: after set(key, value, ttl) with ttl <= 0 on a key that held no entry,
\* get(key) is a miss.
C10_NonPositiveTtlNotReadBack ==
    (hist.ret.op \in {"set", "set_with_ttl"} /\ hist.ret.ttl <= 0 /\ hist.ret.absent) =>
        get(redis, hist.ret.key, 0).value = Miss

\* C20: a cache-aside read (get_post, get_product_ttl) over a healthy store that
\* finds the key returns the cached value, queries nothing and changes nothing;
\* one that misses queries the database once, returns the row and stores it, and
\* the next read at any time before the TTL is up is a hit without a query.
ReadThrough(op, store, rows, id) ==
    IF op = "get_post" THEN get_post(store, rows, id, 0, 0)
    ELSE get_product_ttl(store, rows, id, 0, 0)

C20_CacheAside ==
    [][(hist'.ret.op \in {"get_post", "get_product_ttl"} /\ ~hist'.ret.failed) =>
         \E i \in PostIds :
            /\ hist'.ret.key \in {PostKey(i), ProductTtlKey(i)}
            /\ IF Exists(redis, hist'.ret.key)
               THEN /\ hist'.ret.value = redis[hist'.ret.key].val
                    /\ hist'.ret.queries = 0
                    /\ redis' = redis
               ELSE /\ hist'.ret.queries = 1
                    /\ hist'.ret.value = db[i]
                    /\ Exists(redis', hist'.ret.key)
                    /\ redis'[hist'.ret.key] = [val |-> db[i], ttl |-> hist'.ret.ttl]
                    /\ \A d \in {0, 1, hist'.ret.ttl - 1} :
                          LET next == ReadThrough(hist'.ret.op, AgeBy(redis', d), db', i)
                          IN  next.queries = 0 /\ next.value = hist'.ret.value]_vars

\* C20 witness: a read has just missed, queried the database and filled the cache
C20_Witness ==
    /\ hist.ret.op = "get_product_ttl"
    /\ ~hist.ret.failed
    /\ hist.ret.absent
    /\ hist.ret.queries = 1
    /\ \E i \in PostIds : /\ hist.ret.key = ProductTtlKey(i)
                          /\ Exists(redis, ProductTtlKey(i))
                          /\ redis[ProductTtlKey(i)].val = db[i]
                          /\ Exists(redis, PostKey(i))

(***************************************************************************)
(* Write endpoints of the invalidation and db-caching services: write-     *)
(* through and invalidate-on-write.  Each endpoint is an async function    *)
(* without an await, served by one uvicorn process: a request is one step. *)
(* db = [products, posts], each a function from ids to a row or NoRow.     *)
(***************************************************************************)
WriteTickSeconds == 1800
ExplicitTtl == 3600
WriteThroughTtl == 300
AllPostsTtl == 300
NoUpdate == "{}"
WriteRows == PostRows \cup {NoRow}
Updates == PostRows \cup {NoUpdate}
ExplicitKey(product_id) == "product:explicit:" \o product_id
WriteThroughKey(product_id) == "product:writethrough:" \o product_id
AllPostsKey == "post:all"

\* [post.to_dict() for post in posts], serialised
RECURSIVE JsonRows(_, _)
JsonRows(rows, ids) ==
    IF ids = {} THEN ""
    ELSE LET i == CHOOSE x \in ids : TRUE
         IN  (IF rows[i] = NoRow THEN "" ELSE rows[i] \o ",") \o JsonRows(rows, ids \ {i})
PostList(rows) == "[" \o JsonRows(rows, DOMAIN rows) \o "]"

\* if update.name: ...: a request without fields leaves the row as it is
Updated(row, update) == IF update = NoUpdate THEN row ELSE update

\* a pattern deletion that leaves the keys in place
DeletePatternKept(store, pattern, fail) == Out(store, Miss)

\* RedisCache.delete_pattern: KEYS pattern, DEL of the keys found; the patterns
\* used have no wildcard and match the key of that name
delete_pattern(store, pattern, fail) ==
    Except(IF fail = 1 THEN Raise(store)
           ELSE IF ~Exists(store, pattern) THEN Out(store, Miss)
           ELSE IF fail = 2 THEN Raise(store)
           ELSE Out(DelAll(store, {pattern}), Miss),
           ReturnNone)

\* a write-through that does not reach the cache
WriteThroughSkipped(store, key, value, ttl, fail) == Out(store, Miss)

\* CacheManager.update_write_through: SETEX
update_write_through(store, key, value, ttl, fail) ==
    LET r == SetEx(store, key, ttl, value)
    IN  Except(IF fail = 1 \/ r.err THEN Raise(store) ELSE Out(r.store, Miss), ReturnNone)

\* the response of an endpoint: the store and table it leaves, status and body
Resp(r, rows, status, value, queries) ==
    [store |-> r.store, rows |-> rows, status |-> status, value |-> value,
     queries |-> queries, failed |-> r.failed]

\* get_product_explicit / get_product_writethrough: get_with_ttl, else the row is
\* read, cached with set_with_ttl and returned; 404 without a row
get_product(store, rows, key, product_id, ttl, fail1, fail2) ==
    LET c == get_with_ttl(store, key, fail1)
        w == set_with_ttl(c.store, key, rows[product_id], ttl, fail2)
    IN  IF c.value # Miss THEN Resp(c, rows, 200, c.value, 0)
        ELSE IF rows[product_id] = NoRow THEN Resp(c, rows, 404, NotFound, 1)
        ELSE Resp([w EXCEPT !.failed = c.failed \/ w.failed], rows, 200, rows[product_id], 1)
get_product_explicit(store, rows, product_id, fail1, fail2) ==
    get_product(store, rows, ExplicitKey(product_id), product_id, ExplicitTtl, fail1, fail2)
get_product_writethrough(store, rows, product_id, fail1, fail2) ==
    get_product(store, rows, WriteThroughKey(product_id), product_id, WriteThroughTtl, fail1, fail2)

\* delete_product_explicit: the row is deleted and committed, then invalidate_explicit
delete_product_explicit(store, rows, product_id, fail) ==
    LET gone == [rows EXCEPT ![product_id] = NoRow]
    IN  IF rows[product_id] = NoRow THEN Resp(Out(store, Miss), rows, 404, NotFound, 1)
        ELSE Resp(invalidate_explicit(store, ExplicitKey(product_id), fail), gone, 200, Miss, 1)

\* update_product_writethrough: the row is updated and committed, then
\* update_write_through(key, product.to_dict(), ttl=300)
update_product_writethrough(store, rows, product_id, update, fail) ==
    LET new == [rows EXCEPT ![product_id] = Updated(@, update)]
    IN  IF rows[product_id] = NoRow THEN Resp(Out(store, Miss), rows, 404, NotFound, 1)
        ELSE Resp(update_write_through(store, WriteThroughKey(product_id), new[product_id],
                                       WriteThroughTtl, fail),
                  new, 200, new[product_id], 1)

\* get_post as an endpoint: 404 without a row
get_post_endpoint(store, rows, post_id, fail1, fail2) ==
    LET r == get_post(store, rows, post_id, fail1, fail2)
    IN  Resp(r, rows, IF r.value = NotFound THEN 404 ELSE 200, r.value, r.queries)

\* get_all_posts: an empty cached list is not a hit (if cached_posts:)
get_all_posts(store, rows, fail1, fail2) ==
    LET c == get(store, AllPostsKey, fail1)
        w == set(c.store, AllPostsKey, PostList(rows), AllPostsTtl, fail2)
    IN  IF c.value \notin {Miss, "[]"} THEN Resp(c, rows, 200, c.value, 0)
        ELSE Resp([w EXCEPT !.failed = c.failed \/ w.failed], rows, 200, PostList(rows), 1)

\* delete_post then delete_pattern("post:all")
InvalidatePost(store, post_id, fail1, fail2) ==
    LET d == delete(store, PostKey(post_id), fail1)
        p == delete_pattern(d.store, AllPostsKey, fail2)
    IN  [p EXCEPT !.failed = d.failed \/ p.failed]

\* create_post: the new row is committed, then delete_pattern("post:all")
create_post(store, rows, post_id, post, fail) ==
    LET new == [rows EXCEPT ![post_id] = post]
    IN  Resp(delete_pattern(store, AllPostsKey, fail), new, 201, post, 1)

\* update_post: 404 without a row; commit, delete_post, delete_pattern("post:all")
update_post(store, rows, post_id, post_update, fail1, fail2) ==
    LET new == [rows EXCEPT ![post_id] = Updated(@, post_update)]
    IN  IF rows[post_id] = NoRow THEN Resp(Out(store, Miss), rows, 404, NotFound, 1)
        ELSE Resp(InvalidatePost(store, post_id, fail1, fail2), new, 200, new[post_id], 1)

\* delete_post: 404 without a row; commit, delete_post, delete_pattern("post:all")
delete_post(store, rows, post_id, fail1, fail2) ==
    LET gone == [rows EXCEPT ![post_id] = NoRow]
    IN  IF rows[post_id] = NoRow THEN Resp(Out(store, Miss), rows, 404, NotFound, 1)
        ELSE Resp(InvalidatePost(store, post_id, fail1, fail2), gone, 204, Miss, 1)

WriteRet(op, id, r) ==
    [op |-> op, id |-> id, status |-> r.status, value |-> r.value, queries |-> r.queries,
     failed |-> r.failed]

\* a request to the invalidation service
ProductRequest(op, id, r) ==
    /\ redis' = r.store
    /\ db' = [db EXCEPT !.products = r.rows]
    /\ hist' = [ret |-> WriteRet(op, id, r)]
    /\ UNCHANGED <<req, env>>

\* a request to the db-caching service
PostRequest(op, id, r) ==
    /\ redis' = r.store
    /\ db' = [db EXCEPT !.posts = r.rows]
    /\ hist' = [ret |-> WriteRet(op, id, r)]
    /\ UNCHANGED <<req, env>>

GetProductExplicit(i, fail1, fail2) ==
    ProductRequest("get_product_explicit", i, get_product_explicit(redis, db.products, i, fail1, fail2))
DeleteProductExplicit(i, fail) ==
    ProductRequest("delete_product_explicit", i, delete_product_explicit(redis, db.products, i, fail))
GetProductWritethrough(i, fail1, fail2) ==
    ProductRequest("get_product_writethrough", i,
                   get_product_writethrough(redis, db.products, i, fail1, fail2))
UpdateProductWritethrough(i, update, fail) ==
    ProductRequest("update_product_writethrough", i,
                   update_product_writethrough(redis, db.products, i, update, fail))
ReadPost(i, fail1, fail2) ==
    PostRequest("get_post", i, get_post_endpoint(redis, db.posts, i, fail1, fail2))
ReadAllPosts(fail1, fail2) ==
    PostRequest("get_all_posts", "all", get_all_posts(redis, db.posts, fail1, fail2))
CreatePost(i, post, fail) ==
    /\ db.posts[i] = NoRow
    /\ PostRequest("create_post", i, create_post(redis, db.posts, i, post, fail))
PutPost(i, post_update, fail1, fail2) ==
    PostRequest("update_post", i, update_post(redis, db.posts, i, post_update, fail1, fail2))
DeletePost(i, fail1, fail2) ==
    PostRequest("delete_post", i, delete_post(redis, db.posts, i, fail1, fail2))

\* WriteTickSeconds seconds pass
WriteTick ==
    /\ redis # <<>>
    /\ redis' = AgeBy(redis, WriteTickSeconds)
    /\ hist' = [ret |-> [op |-> "tick", id |-> "all", status |-> 0, value |-> Miss,
                         queries |-> 0, failed |-> FALSE]]
    /\ UNCHANGED <<db, req, env>>

WriteInit ==
    /\ redis = <<>>
    /\ db \in [products : [PostIds -> WriteRows], posts : [PostIds -> WriteRows]]
    /\ req = <<>>
    /\ env = <<>>
    /\ hist = [ret |-> [op |-> "init", id |-> "all", status |-> 0, value |-> Miss,
                        queries |-> 0, failed |-> FALSE]]

WriteNext ==
    \/ \E i \in PostIds, fail1 \in Fails1, fail2 \in Fails1 : GetProductExplicit(i, fail1, fail2)
    \/ \E i \in PostIds, fail \in Fails1 : DeleteProductExplicit(i, fail)
    \/ \E i \in PostIds, fail1 \in Fails1, fail2 \in Fails1 : GetProductWritethrough(i, fail1, fail2)
    \/ \E i \in PostIds, update \in Updates, fail \in Fails1 : UpdateProductWritethrough(i, update, fail)
    \/ \E i \in PostIds, fail1 \in Fails1, fail2 \in Fails1 : ReadPost(i, fail1, fail2)
    \/ \E fail1 \in Fails1, fail2 \in Fails1 : ReadAllPosts(fail1, fail2)
    \/ \E i \in PostIds, post \in PostRows, fail \in Fails2 : CreatePost(i, post, fail)
    \/ \E i \in PostIds, post_update \in Updates, fail1 \in Fails1, fail2 \in Fails2 :
          PutPost(i, post_update, fail1, fail2)
    \/ \E i \in PostIds, fail1 \in Fails1, fail2 \in Fails2 : DeletePost(i, fail1, fail2)
    \/ WriteTick

SpecWrite == WriteInit /\ [][WriteNext]_vars

\* C21: when update_product_writethrough has returned (the product exists and the
\* cache write went through), product:writethrough:{id} holds the row just
\* committed with ttl 300, and the next read is a cache hit, without a query,
\* that returns this row.
C21_WriteThrough ==
    [][(hist'.ret.op = "update_product_writethrough" /\ hist'.ret.status = 200 /\ ~hist'.ret.failed) =>
         LET i == hist'.ret.id
             next == get_product_writethrough(redis', db'.products, i, 0, 0)
         IN  /\ Exists(redis', WriteThroughKey(i))
             /\ redis'[WriteThroughKey(i)] = [val |-> db'.products[i], ttl |-> WriteThroughTtl]
             /\ hist'.ret.value = db'.products[i]
             /\ next.queries = 0
             /\ next.status = 200
             /\ next.value = db'.products[i]
             /\ next.store = redis']_vars

\* C21 witness: the write-through has just replaced a cached older row
C21_Witness ==
    /\ hist.ret.op = "update_product_writethrough"
    /\ hist.ret.status = 200
    /\ ~hist.ret.failed
    /\ hist.ret.value = "v2"
    /\ Exists(redis, WriteThroughKey("1"))
    /\ redis[WriteThroughKey("1")].val = "v2"
    /\ db.products["1"] = "v2"
    /\ Exists(redis, ExplicitKey("1"))
    /\ redis[ExplicitKey("1")].val = "v1"

\* the keys a write endpoint names
InvalidatedKeys(op, i) ==
    IF op = "delete_product_explicit" THEN {ExplicitKey(i)}
    ELSE IF op = "create_post" THEN {AllPostsKey}
    ELSE {PostKey(i), AllPostsKey}

\* C22: when delete_product_explicit, update_post, delete_post or create_post has
\* returned (the write was done and the cache commands went through), the keys it
\* names are absent; the next read of the item queries the database and answers
\* with the row as written, 404 for a deleted one, and the next read of the post
\* list queries the database and answers with the rows as written.
C22_InvalidateOnWrite ==
    [][(/\ hist'.ret.op \in {"delete_product_explicit", "update_post", "delete_post", "create_post"}
        /\ hist'.ret.status # 404
        /\ ~hist'.ret.failed) =>
         LET i == hist'.ret.id
             op == hist'.ret.op
             item == IF op = "delete_product_explicit"
                     THEN get_product_explicit(redis', db'.products, i, 0, 0)
                     ELSE get_post_endpoint(redis', db'.posts, i, 0, 0)
             row == IF op = "delete_product_explicit" THEN db'.products[i] ELSE db'.posts[i]
             list == get_all_posts(redis', db'.posts, 0, 0)
         IN  /\ \A k \in InvalidatedKeys(op, i) : ~Exists(redis', k)
             /\ op \in {"delete_product_explicit", "delete_post"} =>
                   (row = NoRow /\ item.status = 404 /\ item.value = NotFound)
             /\ op = "update_post" =>
                   (item.queries = 1 /\ item.status = 200 /\ item.value = row
                    /\ row = hist'.ret.value)
             /\ op # "delete_product_explicit" =>
                   (list.queries = 1 /\ list.value = PostList(db'.posts))]_vars

\* C22 witness: a cached post and a cached list have just been invalidated by the
\* deletion of the post
C22_Witness ==
    /\ hist.ret.op = "delete_post"
    /\ hist.ret.status = 204
    /\ ~hist.ret.failed
    /\ db.posts["1"] = NoRow
    /\ ~Exists(redis, PostKey("1"))
    /\ ~Exists(redis, AllPostsKey)
    /\ Exists(redis, ExplicitKey("1"))

(***************************************************************************)
(* Stale-while-revalidate: get_featured_products_swr.  db is the list of   *)
(* featured products as the query returns it; the service can change or    *)
(* delete featured products and has no way to add one.                     *)
(***************************************************************************)
SwrTickSeconds == 50
SwrStepSeconds == 25
SwrTtl == 120
FeaturedKey == "products:featured"
EmptyList == "[]"
FeaturedLists == {EmptyList, "[v1]", "[v2]"}

\* a refresh that does not reach the cache
RefreshSwrSkipped(store, key, value, ttl, fail) == Out(store, Miss)

\* CacheManager.refresh_swr: SETEX
refresh_swr(store, key, value, ttl, fail) ==
    LET r == SetEx(store, key, ttl, value)
    IN  Except(IF fail = 1 \/ r.err THEN Raise(store) ELSE Out(r.store, Miss), ReturnNone)

\* get_featured_products_swr: an empty cached list counts as no cached value
\* (if cached:)
get_featured_products_swr(store, featured, fail1, fail2) ==
    LET c == get_with_swr(store, FeaturedKey, stale_threshold, fail1)
        r == refresh_swr(c.store, FeaturedKey, featured, SwrTtl, fail2)
        w == set_with_ttl(c.store, FeaturedKey, featured, SwrTtl, fail2)
    IN  IF c.value \notin {Miss, EmptyList}
        THEN (IF c.refresh
              THEN [r EXCEPT !.value = c.value, !.refresh = TRUE, !.queries = 1,
                             !.failed = c.failed \/ r.failed]
              ELSE c)
        ELSE [w EXCEPT !.value = featured, !.refresh = c.refresh, !.queries = 1,
                       !.failed = c.failed \/ w.failed]

SwrRet(op, r) ==
    [op |-> op, value |-> r.value, refresh |-> r.refresh, queries |-> r.queries,
     failed |-> r.failed, ttl |-> Ttl(redis, FeaturedKey)]

GetFeaturedProductsSwr(fail1, fail2) ==
    LET r == get_featured_products_swr(redis, db, fail1, fail2)
    IN  /\ redis' = r.store
        /\ hist' = [ret |-> SwrRet("get_featured_products_swr", r)]
        /\ UNCHANGED <<db, req, env>>

\* an update or a deletion of featured products by another endpoint
FeaturedWrite(list) ==
    /\ db # EmptyList
    /\ list # db
    /\ db' = list
    /\ hist' = [ret |-> SwrRet("write", Out(redis, list))]
    /\ UNCHANGED <<redis, req, env>>

\* seconds pass
SwrTick(seconds) ==
    /\ redis # <<>>
    /\ redis' = AgeBy(redis, seconds)
    /\ hist' = [ret |-> SwrRet("tick", Out(redis, Miss))]
    /\ UNCHANGED <<db, req, env>>

SwrInit ==
    /\ redis = <<>>
    /\ db \in FeaturedLists
    /\ req = <<>>
    /\ env = <<>>
    /\ hist = [ret |-> SwrRet("init", Out(redis, Miss))]

SwrNext ==
    \/ \E fail1 \in Fails2, fail2 \in Fails1 : GetFeaturedProductsSwr(fail1, fail2)
    \/ \E list \in FeaturedLists : FeaturedWrite(list)
    \/ \E seconds \in {SwrStepSeconds, SwrTickSeconds} : SwrTick(seconds)

SpecSwr == SwrInit /\ [][SwrNext]_vars

\* C23: when products:featured holds a value (remaining TTL > 0), a call of
\* get_featured_products_swr whose store commands went through returns that
\* value; with a remaining TTL below 30 s it also rewrites the key with the
\* database's list and TTL 120, and the next read finds that list with
\* needs_refresh = False and changes nothing; with 30 s or more left, a cached
\* list that is not empty is returned without a query or a write.
C23_StaleWhileRevalidate ==
    [][(/\ hist'.ret.op = "get_featured_products_swr"
        /\ ~hist'.ret.failed
        /\ Exists(redis, FeaturedKey)) =>
         LET next == get_with_swr(redis', FeaturedKey, stale_threshold, 0)
             again == get_featured_products_swr(redis', db', 0, 0)
         IN  /\ redis[FeaturedKey].ttl > 0
             /\ hist'.ret.value = redis[FeaturedKey].val
             /\ redis[FeaturedKey].ttl < stale_threshold =>
                   /\ hist'.ret.refresh
                   /\ redis'[FeaturedKey] = [val |-> db', ttl |-> SwrTtl]
                   /\ next.value = db'
                   /\ ~next.refresh
                   /\ again.value = db'
                   /\ again.store = redis'
             /\ (redis[FeaturedKey].ttl >= stale_threshold /\ redis[FeaturedKey].val # EmptyList) =>
                   (redis' = redis /\ hist'.ret.queries = 0 /\ ~hist'.ret.refresh)]_vars

\* C23 witness: a stale list was returned and the key now holds the database's
\* newer list
C23_Witness ==
    /\ hist.ret.op = "get_featured_products_swr"
    /\ ~hist.ret.failed
    /\ hist.ret.refresh
    /\ hist.ret.value = "[v1]"
    /\ db = "[v2]"
    /\ Exists(redis, FeaturedKey)
    /\ redis[FeaturedKey] = [val |-> "[v2]", ttl |-> SwrTtl]

(***************************************************************************)
(* The production pattern (invalidation/main.py, strategy 7): a writer     *)
(* running update_product_production and a reader running                  *)
(* get_product_production on product 1 of category 1.  The endpoints are   *)
(* split at their database and cache calls; hist.trace lists the steps of  *)
(* the latest update in the order they happened.  Time is in seconds.      *)
(***************************************************************************)
MaxUpdates == 2
ProdTickSeconds == 150
ProdRows == {"v1", "v2"}
ProdKey == "product:production:1"
ProdTags == <<"category:1", "all_products">>
ProdChannel == "product:updates"

\* CacheManager.set_combined: SETEX, then the tag loop when tags are given
set_combined(store, key, value, tags, ttl, fail) == set_with_tags(store, key, value, tags, ttl, fail)

\* CacheManager.publish_invalidation_event: PUBLISH inside its own try/except
publish_invalidation_event(published, channel, data, fail) ==
    IF fail = 1 THEN published ELSE Append(published, [channel |-> channel, key |-> data])

ProdStep(name) == hist' = [hist EXCEPT !.trace = Append(@, name)]

\* product.name = update.name ...; db.commit()
ProdCommit(v) ==
    /\ req.writer.pc = "idle"
    /\ db.commits < MaxUpdates
    /\ db' = [row |-> v, commits |-> db.commits + 1]
    /\ req' = [req EXCEPT !.writer.pc = "invalidate_combined"]
    /\ hist' = [hist EXCEPT !.trace = <<"commit">>]
    /\ UNCHANGED <<redis, env>>

\* cache.invalidate_combined: self.client.delete(key); a failure skips the event
ProdDeleteKey(fail) ==
    /\ req.writer.pc = "invalidate_combined"
    /\ IF fail = 1
       THEN /\ req' = [req EXCEPT !.writer.pc = "invalidate_by_tag"]
            /\ UNCHANGED <<redis, hist>>
       ELSE /\ redis' = Del(redis, ProdKey)
            /\ req' = [req EXCEPT !.writer.pc = "publish"]
            /\ ProdStep("delete_key")
    /\ UNCHANGED <<db, env>>

\* cache.invalidate_combined: self.publish_invalidation_event(event_channel, {"key": key})
ProdPublish(fail) ==
    /\ req.writer.pc = "publish"
    /\ env' = [published |-> publish_invalidation_event(env.published, ProdChannel, ProdKey, fail)]
    /\ req' = [req EXCEPT !.writer.pc = "invalidate_by_tag"]
    /\ IF fail = 1 THEN UNCHANGED hist ELSE ProdStep("publish")
    /\ UNCHANGED <<redis, db>>

\* cache.invalidate_by_tag(f"category:{product.category_id}"); return
ProdInvalidateTag(fail) ==
    LET r == invalidate_by_tag(redis, ProdTags[1], fail)
    IN  /\ req.writer.pc = "invalidate_by_tag"
        /\ redis' = r.store
        /\ req' = [req EXCEPT !.writer.pc = "idle"]
        /\ IF r.failed THEN UNCHANGED hist ELSE ProdStep("invalidate_tag")
        /\ UNCHANGED <<db, env>>

\* get_product_production: cache.get_with_ttl(key)
ProdReadCache ==
    LET r == get_with_ttl(redis, ProdKey, 0)
    IN  /\ req.reader.pc = "idle"
        /\ req' = [req EXCEPT !.reader = IF r.value # Miss
                                         THEN [pc |-> "idle", data |-> r.value]
                                         ELSE [pc |-> "query", data |-> Miss]]
        /\ UNCHANGED <<redis, db, env, hist>>

\* get_product_production: db.query(Product)...first(); product.to_dict()
ProdReadDb ==
    /\ req.reader.pc = "query"
    /\ req' = [req EXCEPT !.reader = [pc |-> "set_combined", data |-> db.row]]
    /\ UNCHANGED <<redis, db, env, hist>>

\* get_product_production: cache.set_combined(key, product_data, tags, ttl=300); return
ProdFill ==
    /\ req.reader.pc = "set_combined"
    /\ redis' = set_combined(redis, ProdKey, req.reader.data, ProdTags, default_ttl, 0).store
    /\ req' = [req EXCEPT !.reader.pc = "idle"]
    /\ UNCHANGED <<db, env, hist>>

\* ProdTickSeconds seconds pass
ProdTick ==
    /\ redis # <<>>
    /\ redis' = AgeBy(redis, ProdTickSeconds)
    /\ UNCHANGED <<db, req, env, hist>>

ProdInit ==
    /\ redis = <<>>
    /\ db \in [row : ProdRows, commits : {0}]
    /\ req = [writer |-> [pc |-> "idle", data |-> Miss], reader |-> [pc |-> "idle", data |-> Miss]]
    /\ env = [published |-> <<>>]
    /\ hist = [trace |-> <<>>]

ProdNext ==
    \/ \E v \in ProdRows : ProdCommit(v)
    \/ \E fail \in Fails1 : ProdDeleteKey(fail)
    \/ \E fail \in Fails1 : ProdPublish(fail)
    \/ \E fail \in Fails : ProdInvalidateTag(fail)
    \/ ProdReadCache
    \/ ProdReadDb
    \/ ProdFill
    \/ ProdTick

SpecProd == ProdInit /\ [][ProdNext]_vars

\* C13: in an update the commit comes first, the event is published after the
\* product key and the entries of the category tag have been invalidated, and
\* the write path stores no value in the cache.
C13_WritePathOrder ==
    /\ hist.trace # <<>> => hist.trace[1] = "commit"
    /\ \A i, j \in DOMAIN hist.trace :
          (hist.trace[i] = "publish" /\ hist.trace[j] \in {"delete_key", "invalidate_tag"}) => j < i

\* C36: once an update has committed, deleted the product key and returned, the
\* product key never holds a value other than the committed row: a reader that
\* read the database before the commit does not store its old value afterwards.
C36_NoStaleAfterUpdate ==
    (req.writer.pc = "idle" /\ \E i \in DOMAIN hist.trace : hist.trace[i] = "delete_key")
        => (Exists(redis, ProdKey) => redis[ProdKey].val = db.row)

\* a reader whose database read follows the commit stores the committed row
ProdFreshFill ==
    [][(req.reader.pc = "query" /\ req'.reader.pc = "set_combined")
          => req'.reader.data = db.row]_vars

(***************************************************************************)
(* TTL jitter (cache-avalanche/main.py).  warm_cache_with_jitter(count)    *)
(* draws one random.randint(-3, 3) per entry; the draws are independent,   *)
(* so every assignment of jitters to the entries is a possible outcome.    *)
(* The warm-up is followed one loop iteration at a time: req.i is the      *)
(* entry it handles next (0 when no warm-up runs), req.min and req.max     *)
(* the smallest and largest of its list ttls.  hist.ret is the latest      *)
(* call or assignment; for an assignment it names the entry and the TTL.   *)
(* Time is in seconds.                                                     *)
(***************************************************************************)
BASE_TTL == 10
WarmCount == 2
MaxJitterQueries == 1
JitterTickSeconds == 7
Jitters == -3 .. 3
JitterIds == 1 .. WarmCount
JitterKey(i) == <<"product", "with-jitter", i>>
Product(i) == <<"json", i>>
Min(a, b) == IF a <= b THEN a ELSE b
JitterRet(op, i, lo, hi) == [op |-> op, id |-> i, min |-> lo, max |-> hi]

\* a jitter applied twice
JitteredTtlTwice(jitter) == BASE_TTL + 2 * jitter

\* ttl = BASE_TTL + jitter
JitteredTtl(jitter) == BASE_TTL + jitter

\* warm_cache_with_jitter: stats["db_queries"] = 0; ttls = []
WarmStart ==
    /\ req.i = 0
    /\ req' = [i |-> 1, min |-> 0, max |-> 0]
    /\ db' = [db_queries |-> 0]
    /\ hist' = [ret |-> JitterRet("start", 0, 0, 0)]
    /\ UNCHANGED <<redis, env>>

\* one iteration: query_database(i), jitter, ttls.append(ttl), redis_client.set(..., ex=ttl)
WarmStep ==
    /\ req.i \in JitterIds
    /\ \E jitter \in Jitters :
         LET ttl == JitteredTtl(jitter)
         IN  /\ redis' = Put(redis, JitterKey(req.i), Product(req.i), ttl)
             /\ req' = [i |-> req.i + 1,
                        min |-> IF req.i = 1 THEN ttl ELSE Min(req.min, ttl),
                        max |-> IF req.i = 1 THEN ttl ELSE Max(req.max, ttl)]
             /\ hist' = [ret |-> JitterRet("set", req.i, ttl, ttl)]
    /\ db' = [db_queries |-> db.db_queries + 1]
    /\ UNCHANGED env

\* the response: "ttl_range": min(ttls) - max(ttls)
WarmReturn ==
    /\ req.i = WarmCount + 1
    /\ req' = [i |-> 0, min |-> 0, max |-> 0]
    /\ hist' = [ret |-> JitterRet("warm_cache_with_jitter", WarmCount, req.min, req.max)]
    /\ UNCHANGED <<redis, db, env>>

\* get_product_with_jitter: a hit returns the cached product, a miss queries the
\* database and caches the product with a jittered TTL
GetProductWithJitter(i) ==
    IF Exists(redis, JitterKey(i))
    THEN /\ hist' = [ret |-> JitterRet("cache", i, 0, 0)]
         /\ UNCHANGED <<redis, db, req, env>>
    ELSE /\ db.db_queries < WarmCount + MaxJitterQueries
         /\ \E jitter \in Jitters :
              /\ redis' = Put(redis, JitterKey(i), Product(i), JitteredTtl(jitter))
              /\ hist' = [ret |-> JitterRet("set", i, JitteredTtl(jitter), JitteredTtl(jitter))]
         /\ db' = [db_queries |-> db.db_queries + 1]
         /\ UNCHANGED <<req, env>>

\* JitterTickSeconds seconds pass
JitterTick ==
    /\ redis # <<>>
    /\ redis' = AgeBy(redis, JitterTickSeconds)
    /\ hist' = [ret |-> JitterRet("tick", 0, 0, 0)]
    /\ UNCHANGED <<db, req, env>>

JitterInit ==
    /\ redis = <<>>
    /\ db = [db_queries |-> 0]
    /\ req = [i |-> 0, min |-> 0, max |-> 0]
    /\ env = <<>>
    /\ hist = [ret |-> JitterRet("init", 0, 0, 0)]

JitterNext ==
    \/ WarmStart
    \/ WarmStep
    \/ WarmReturn
    \/ \E i \in JitterIds : GetProductWithJitter(i)
    \/ JitterTick

SpecJitter == JitterInit /\ [][JitterNext]_vars

\* C19 as claimed: the TTLs assigned by warm_cache_with_jitter lie in 7..13 and
\* their spread is more than 1 and fewer than 7 seconds.
C19_SpreadAboveOne ==
    hist.ret.op = "warm_cache_with_jitter" =>
        /\ 7 <= hist.ret.min /\ hist.ret.max <= 13
        /\ hist.ret.max - hist.ret.min > 1
        /\ hist.ret.max - hist.ret.min < 7

\* C19 as amended: every TTL assigned by warm_cache_with_jitter or by a refetch
\* lies in 7..13 and is the expiry the entry gets, and the TTLs of a warm-up
\* span fewer than 7 seconds.
C19_TtlRange ==
    /\ hist.ret.op = "set" =>
          /\ hist.ret.min \in 7 .. 13
          /\ Ttl(redis, JitterKey(hist.ret.id)) = hist.ret.min
    /\ \A i \in JitterIds : Exists(redis, JitterKey(i)) => redis[JitterKey(i)].ttl \in 1 .. 13
    /\ hist.ret.op = "warm_cache_with_jitter" =>
          /\ 7 <= hist.ret.min /\ hist.ret.min <= hist.ret.max /\ hist.ret.max <= 13
          /\ hist.ret.max - hist.ret.min < 7

\* C19 witness: a warm-up whose TTLs span the whole range
C19_Witness ==
    /\ hist.ret.op = "warm_cache_with_jitter"
    /\ hist.ret.min = 7
    /\ hist.ret.max = 13

(***************************************************************************)
(* Event-based invalidation: update_product_events and invalidate_combined *)
(* publish on product:updates, worker.py subscribes and invalidates.  The  *)
(* server hands a published message to the connections subscribed at that  *)
(* moment and keeps nothing.  env = [next, subscribed, inbox]; hist.subs   *)
(* records who was subscribed when an event was published, hist.handled    *)
(* how often a worker has handled it.                                      *)
(***************************************************************************)
MaxEvents == 2
NumWorkers == 1
EventsTtl == 600
Workers == 1 .. NumWorkers
EventIds == 1 .. MaxEvents
EventsKey(product_id) == "product:events:" \o product_id
EventKeys == {EventsKey("1"), ProdKey}

\* the two payloads: {"product_id": id, "action": "update"} and {"key": key}
ProductEvent(seq, product_id) ==
    [type |-> "message", seq |-> seq, product_id |-> product_id, key |-> Miss]
KeyEvent(seq, key) == [type |-> "message", seq |-> seq, product_id |-> Miss, key |-> key]
\* the confirmation that listen() yields first
Subscribed == [type |-> "subscribe", seq |-> 0, product_id |-> Miss, key |-> Miss]

\* a channel that keeps the message for connections that subscribe later
PublishRetained(inbox, subscribed, message) ==
    [w \in DOMAIN inbox |-> Append(inbox[w], message)]

\* PUBLISH channel message: handed to the connections subscribed now
Publish(inbox, subscribed, message) ==
    [w \in DOMAIN inbox |-> IF subscribed[w] THEN Append(inbox[w], message) ELSE inbox[w]]

\* worker.py lines 38-53: the key a worker invalidates for a message
NamedKey(message) ==
    IF message.product_id # Miss THEN EventsKey(message.product_id)
    ELSE IF message.key # Miss THEN message.key
    ELSE Miss

EventsRet(op, w, seq, key, failed) ==
    [op |-> op, worker |-> w, seq |-> seq, key |-> key, failed |-> failed]

\* publish_invalidation_event from an endpoint: the error of a failed PUBLISH is
\* swallowed and no event exists
PublishEvent(op, message, fail) ==
    /\ env.next <= MaxEvents
    /\ IF fail = 1
       THEN /\ hist' = [hist EXCEPT !.ret = EventsRet(op, 0, 0, NamedKey(message), TRUE)]
            /\ UNCHANGED env
       ELSE /\ env' = [env EXCEPT !.next = @ + 1,
                                  !.inbox = Publish(env.inbox, env.subscribed, message)]
            /\ hist' = [hist EXCEPT !.subs[env.next] = {w \in Workers : env.subscribed[w]},
                                    !.ret = EventsRet(op, 0, env.next, NamedKey(message), FALSE)]

\* update_product_events: db.commit(), then the event {"product_id", "action"}
UpdateProductEventsPublish(i, fail) ==
    /\ req.pc = "idle"
    /\ PublishEvent("publish", ProductEvent(env.next, i), fail)
    /\ req' = [pc |-> "invalidate", id |-> i]
    /\ UNCHANGED <<redis, db>>

\* update_product_events: cache.invalidate_explicit(key) of its own key, return
UpdateProductEventsInvalidate(fail) ==
    LET r == invalidate_explicit(redis, EventsKey(req.id), fail)
    IN  /\ req.pc = "invalidate"
        /\ redis' = r.store
        /\ req' = [pc |-> "idle", id |-> Miss]
        /\ hist' = [hist EXCEPT !.ret = EventsRet("update_product_events", 0, 0,
                                                  EventsKey(req.id), r.failed)]
        /\ UNCHANGED <<db, env>>

\* invalidate_combined(key, channel): DEL key, then the event {"key": key}
InvalidateCombined(fail1, fail2) ==
    LET r == delete(redis, ProdKey, fail1)
    IN  /\ req.pc = "idle"
        /\ IF r.raised \/ r.failed
           THEN /\ hist' = [hist EXCEPT !.ret = EventsRet("invalidate_combined", 0, 0, ProdKey, TRUE)]
                /\ UNCHANGED <<redis, env>>
           ELSE /\ redis' = r.store
                /\ PublishEvent("publish", KeyEvent(env.next, ProdKey), fail2)
        /\ UNCHANGED <<db, req>>

\* a read endpoint caches a product under one of the keys
EventsFill(k) ==
    /\ ~Exists(redis, k)
    /\ redis' = Put(redis, k, "v1", EventsTtl)
    /\ hist' = [hist EXCEPT !.ret = EventsRet("fill", 0, 0, k, FALSE)]
    /\ UNCHANGED <<db, req, env>>

\* worker.py line 26: subscribe_to_events on a new connection
WorkerSubscribe(w) ==
    /\ ~env.subscribed[w]
    /\ env' = [env EXCEPT !.subscribed[w] = TRUE, !.inbox[w] = <<Subscribed>>]
    /\ hist' = [hist EXCEPT !.ret = EventsRet("subscribe", w, 0, Miss, FALSE)]
    /\ UNCHANGED <<redis, db, req>>

\* worker.py lines 29-56: the next message of listen(); a message of type
\* "message" is handled by invalidating the key it names
WorkerHandle(w, fail) ==
    /\ env.subscribed[w]
    /\ env.inbox[w] # <<>>
    /\ LET message == Head(env.inbox[w])
           r == IF message.type = "message" /\ NamedKey(message) # Miss
                THEN invalidate_explicit(redis, NamedKey(message), fail)
                ELSE Out(redis, Miss)
       IN  /\ redis' = r.store
           /\ env' = [env EXCEPT !.inbox[w] = Tail(@)]
           /\ hist' = IF message.type = "message"
                      THEN [hist EXCEPT !.handled[w][message.seq] = @ + 1,
                                        !.ret = EventsRet("handle", w, message.seq,
                                                          NamedKey(message), r.failed)]
                      ELSE [hist EXCEPT !.ret = EventsRet("skip", w, 0, Miss, FALSE)]
    /\ UNCHANGED <<db, req>>

\* the worker stops or loses its connection: what it had not read is gone
WorkerStop(w) ==
    /\ env.subscribed[w]
    /\ env' = [env EXCEPT !.subscribed[w] = FALSE, !.inbox[w] = <<>>]
    /\ hist' = [hist EXCEPT !.ret = EventsRet("stop", w, 0, Miss, FALSE)]
    /\ UNCHANGED <<redis, db, req>>

EventsInit ==
    /\ redis = <<>>
    /\ db = <<>>
    /\ req = [pc |-> "idle", id |-> Miss]
    /\ env = [next |-> 1, subscribed |-> [w \in Workers |-> FALSE], inbox |-> [w \in Workers |-> <<>>]]
    /\ hist = [subs |-> [e \in EventIds |-> {}],
               handled |-> [w \in Workers |-> [e \in EventIds |-> 0]],
               ret |-> EventsRet("init", 0, 0, Miss, FALSE)]

EventsNext ==
    \/ \E i \in PostIds, fail \in Fails1 : UpdateProductEventsPublish(i, fail)
    \/ \E fail \in Fails1 : UpdateProductEventsInvalidate(fail)
    \/ \E fail1 \in Fails1, fail2 \in Fails1 : InvalidateCombined(fail1, fail2)
    \/ \E k \in EventKeys : EventsFill(k)
    \/ \E w \in Workers : WorkerSubscribe(w)
    \/ \E w \in Workers, fail \in Fails1 : WorkerHandle(w, fail)
    \/ \E w \in Workers : WorkerStop(w)

SpecEvents == EventsInit /\ [][EventsNext]_vars

\* C26: every event published on product:updates is handled at most once by each
\* worker, and only by a worker that was subscribed when it was published: an
\* event published while a worker was not subscribed never reaches it later; a
\* message waiting for a worker has not been handled by it yet; and a worker that
\* has handled an event (its DEL went through) leaves the named key absent.
C26_AtMostOnceNoReplay ==
    /\ [](\A w \in Workers : \A e \in EventIds :
            /\ hist.handled[w][e] <= 1
            /\ hist.handled[w][e] = 1 => (e < env.next /\ w \in hist.subs[e])
            /\ \A n \in DOMAIN env.inbox[w] :
                  env.inbox[w][n].seq = e => (w \in hist.subs[e] /\ hist.handled[w][e] = 0))
    /\ [][(hist'.ret.op = "handle" /\ ~hist'.ret.failed) =>
            (hist'.ret.key \in EventKeys /\ ~Exists(redis', hist'.ret.key))]_vars

\* C26 witness: of two events, the first was published while worker 1 was not
\* subscribed; worker 1 has since subscribed and handled the second only, and the
\* key the second names is gone
C26_Witness ==
    /\ env.next = 3
    /\ hist.subs[1] = {}
    /\ 1 \in hist.subs[2]
    /\ hist.handled[1][1] = 0
    /\ hist.handled[1][2] = 1
    /\ env.inbox[1] = <<>>
    /\ hist.ret.op = "handle"
    /\ ~Exists(redis, hist.ret.key)

(***************************************************************************)
(* Cache warming: warm_cache (at startup and by POST /warm), get_product   *)
(* and clear_cache.  The endpoints are plain functions served by worker    *)
(* threads: the store commands of a warm-up and of a read interleave.      *)
(* req = [warm, reader]; hist.done: a warm-up has completed; hist.lost: a  *)
(* key was flushed or expired since the latest warm-up began.              *)
(***************************************************************************)
PopularCount == 2
WarmingTickSeconds == 280
WarmingTtl == 300
WarmingJitters == {-30, 30}
PopularIds == 1 .. PopularCount
WarmingKey(product_id) == <<"product", product_id>>

\* get_popular_products: list(range(1, 51)), here the first PopularCount ids
get_popular_products == [i \in PopularIds |-> i]

\* a check that never finds the key
NeverCached(store, key) == FALSE

\* redis_client.exists(key)
AlreadyCached(store, key) == Exists(store, key)

WarmingRet(op, id, source, queries, warmed) ==
    [op |-> op, id |-> id, source |-> source, queries |-> queries, warmed |-> warmed]

\* warm_cache is entered: popular_ids = get_popular_products(); warmed = 0
WarmCacheStart ==
    /\ req.warm.pc = "idle"
    /\ req' = [req EXCEPT !.warm = [pc |-> "check", i |-> 1, warmed |-> 0, written |-> {},
                                    after |-> hist.done /\ ~hist.lost]]
    /\ hist' = [done |-> hist.done /\ ~hist.lost, lost |-> FALSE,
                ret |-> WarmingRet("start", 0, "none", 0, 0)]
    /\ UNCHANGED <<redis, db, env>>

\* if redis_client.exists(key): continue
WarmCacheCheck ==
    /\ req.warm.pc = "check"
    /\ req.warm.i <= PopularCount
    /\ req' = [req EXCEPT !.warm.pc = IF AlreadyCached(redis, WarmingKey(get_popular_products[req.warm.i]))
                                      THEN "check" ELSE "fill",
                          !.warm.i = IF AlreadyCached(redis, WarmingKey(get_popular_products[req.warm.i]))
                                     THEN @ + 1 ELSE @]
    /\ hist' = [hist EXCEPT !.ret = WarmingRet("exists", req.warm.i, "none", 0, req.warm.warmed)]
    /\ UNCHANGED <<redis, db, env>>

\* data = query_database(product_id); ttl = 300 + jitter; SET ex=ttl; warmed += 1
WarmCacheFill ==
    /\ req.warm.pc = "fill"
    /\ \E jitter \in WarmingJitters :
         redis' = Put(redis, WarmingKey(get_popular_products[req.warm.i]),
                      Product(get_popular_products[req.warm.i]), WarmingTtl + jitter)
    /\ req' = [req EXCEPT !.warm.pc = "check", !.warm.i = @ + 1, !.warm.warmed = @ + 1,
                          !.warm.written = @ \cup {req.warm.i}]
    /\ hist' = [hist EXCEPT !.ret = WarmingRet("set", req.warm.i, "database", 1, req.warm.warmed + 1)]
    /\ UNCHANGED <<db, env>>

\* return warmed
WarmCacheReturn ==
    /\ req.warm.pc = "check"
    /\ req.warm.i = PopularCount + 1
    /\ req' = [req EXCEPT !.warm.pc = "idle"]
    /\ hist' = [hist EXCEPT !.done = TRUE,
                            !.ret = WarmingRet("warm_cache", 0, "none", 0, req.warm.warmed)]
    /\ UNCHANGED <<redis, db, env>>

\* get_product: GET; a hit is returned with source "cache"
GetProductGet(product_id) ==
    /\ req.reader.pc = "idle"
    /\ IF Exists(redis, WarmingKey(product_id))
       THEN /\ hist' = [hist EXCEPT !.ret = WarmingRet("get_product", product_id, "cache", 0, 0)]
            /\ UNCHANGED req
       ELSE /\ hist' = [hist EXCEPT !.ret = WarmingRet("get", product_id, "miss", 0, 0)]
            /\ req' = [req EXCEPT !.reader = [pc |-> "miss", id |-> product_id]]
    /\ UNCHANGED <<redis, db, env>>

\* get_product after a miss: query_database, SET ex=ttl, source "database"
GetProductFill ==
    /\ req.reader.pc = "miss"
    /\ \E jitter \in WarmingJitters :
         redis' = Put(redis, WarmingKey(req.reader.id), Product(req.reader.id), WarmingTtl + jitter)
    /\ req' = [req EXCEPT !.reader = [pc |-> "idle", id |-> 0]]
    /\ hist' = [hist EXCEPT !.ret = WarmingRet("get_product", req.reader.id, "database", 1, 0)]
    /\ UNCHANGED <<db, env>>

\* clear_cache: FLUSHDB
FlushCache ==
    /\ redis # <<>>
    /\ redis' = <<>>
    /\ hist' = [hist EXCEPT !.lost = TRUE, !.ret = WarmingRet("clear_cache", 0, "none", 0, 0)]
    /\ UNCHANGED <<db, req, env>>

\* WarmingTickSeconds seconds pass
WarmingTick ==
    /\ redis # <<>>
    /\ redis' = AgeBy(redis, WarmingTickSeconds)
    /\ hist' = [hist EXCEPT !.lost = @ \/ DOMAIN redis' # DOMAIN redis,
                            !.ret = WarmingRet("tick", 0, "none", 0, 0)]
    /\ UNCHANGED <<db, req, env>>

WarmingInit ==
    /\ redis = <<>>
    /\ db = <<>>
    /\ req = [warm |-> [pc |-> "idle", i |-> 0, warmed |-> 0, written |-> {}, after |-> FALSE],
              reader |-> [pc |-> "idle", id |-> 0]]
    /\ env = <<>>
    /\ hist = [done |-> FALSE, lost |-> FALSE, ret |-> WarmingRet("init", 0, "none", 0, 0)]

WarmingNext ==
    \/ WarmCacheStart
    \/ WarmCacheCheck
    \/ WarmCacheFill
    \/ WarmCacheReturn
    \/ \E product_id \in PopularIds : GetProductGet(product_id)
    \/ GetProductFill
    \/ FlushCache
    \/ WarmingTick

SpecWarming == WarmingInit /\ [][WarmingNext]_vars

\* C24: once a warm_cache has completed, and as long as no entry has expired or
\* been flushed since it began, every popular product id has a cache entry and a
\* get_product of a popular id is answered from the cache without a database
\* query; warm_cache leaves a key that is already cached as it is, returns the
\* number of keys it wrote, and returns 0 when it runs right after a completed
\* warm-up.
C24_WarmCache ==
    /\ []((hist.done /\ ~hist.lost) => \A i \in PopularIds : Exists(redis, WarmingKey(i)))
    /\ [][(hist'.ret.op \in {"get", "get_product"} /\ req.reader.pc = "idle"
           /\ hist.done /\ ~hist.lost) =>
            (hist'.ret.op = "get_product" /\ hist'.ret.source = "cache"
             /\ hist'.ret.queries = 0 /\ redis' = redis)]_vars
    /\ [][(hist'.ret.op = "exists" /\ Exists(redis, WarmingKey(req.warm.i))) =>
            (redis' = redis /\ req'.warm.warmed = req.warm.warmed /\ req'.warm.pc = "check"
             /\ req'.warm.i = req.warm.i + 1)]_vars
    /\ [][hist'.ret.op = "warm_cache" =>
            (/\ hist'.ret.warmed = Cardinality(req.warm.written)
             /\ (req.warm.after /\ ~hist.lost) => hist'.ret.warmed = 0)]_vars

\* C24 witness: a second warm-up right after a first that filled the empty cache
\* has returned 0
C24_Witness ==
    /\ hist.ret.op = "warm_cache"
    /\ hist.ret.warmed = 0
    /\ req.warm.after
    /\ hist.done
    /\ ~hist.lost
    /\ \A i \in PopularIds : Exists(redis, WarmingKey(i))

(***************************************************************************)
(* Multi-layer caching: get_product_multi_layer over L1 (a TTLCache in the *)
(* process, env.l1) and L2 (redis), get_stats and clear_cache.  The        *)
(* endpoints are plain functions run by worker threads of one process:     *)
(* their statements interleave, and stats[...] += 1 is a load and a store. *)
(* db is the stats dict.  req.thread[t] is a request in flight with the    *)
(* layers it has consulted (path), the counters it has incremented (incs)  *)
(* and the layers it has written (wrote).                                  *)
(***************************************************************************)
NumLayerThreads == 2
MaxLayerRequests == 2
LayerTickSeconds == 30
L1Ttl == 5
L2Ex == 60
LayerThreads == 1 .. NumLayerThreads
LayerKey == <<"product", 1>>
NoThread == [pc |-> "idle", tmp |-> 0, data |-> NoUser, path |-> <<>>, incs |-> <<>>, wrote |-> {}]

LayerRet(op, t, source, data, r) ==
    [op |-> op, thread |-> t, source |-> source, data |-> data, path |-> r.path,
     incs |-> r.incs, wrote |-> r.wrote]

\* a request that goes to the database whatever L2 answers
L2AlwaysMiss(store, key) == FALSE

\* lines 94-95: cached = redis_client.get(cache_key); if cached:
L2Hit(store, key) == Exists(store, key)

\* the request returns (or fails) and the thread is free
LayerReturn(t, source, data, r) ==
    /\ req' = [req EXCEPT !.thread[t] = NoThread]
    /\ hist' = [hist EXCEPT !.ret = LayerRet("get_product_multi_layer", t, source, data, r)]

\* the load of stats[name] += 1
LayerLoad(t, at, name, to) ==
    /\ req.thread[t].pc = at
    /\ req' = [req EXCEPT !.thread[t].pc = to, !.thread[t].tmp = db[name]]
    /\ hist' = [hist EXCEPT !.ret = LayerRet("load", t, name, NoUser, req.thread[t])]
    /\ UNCHANGED <<redis, db, env>>

\* the store of stats[name] += 1
LayerStore(t, at, name, to) ==
    /\ req.thread[t].pc = at
    /\ db' = [db EXCEPT ![name] = req.thread[t].tmp + 1]
    /\ req' = [req EXCEPT !.thread[t].pc = to, !.thread[t].incs = Append(@, name)]
    /\ hist' = [hist EXCEPT !.ret = LayerRet("store", t, name, NoUser, req'.thread[t])]
    /\ UNCHANGED <<redis, env>>

\* line 89: if cache_key in l1_cache
LayerCheckL1(t) ==
    /\ req.thread[t].pc = "idle"
    /\ hist.started < MaxLayerRequests
    /\ req' = [req EXCEPT !.thread[t] =
                 [NoThread EXCEPT !.pc = IF Exists(env.l1, LayerKey) THEN "l1_load" ELSE "l2_get",
                                  !.path = <<"L1">>]]
    /\ hist' = [hist EXCEPT !.started = @ + 1,
                            !.ret = LayerRet("in", t, "L1", NoUser, req'.thread[t])]
    /\ UNCHANGED <<redis, db, env>>

\* line 91: return l1_cache[cache_key]; KeyError when the entry has gone since
\* the test of line 89
LayerReadL1(t) ==
    /\ req.thread[t].pc = "l1_read"
    /\ IF Exists(env.l1, LayerKey)
       THEN LayerReturn(t, "L1 (Memory)", env.l1[LayerKey].val, req.thread[t])
       ELSE LayerReturn(t, "KeyError", NoUser, req.thread[t])
    /\ UNCHANGED <<redis, db, env>>

\* lines 94-95: the GET of L2
LayerGetL2(t) ==
    /\ req.thread[t].pc = "l2_get"
    /\ req' = [req EXCEPT !.thread[t].path = Append(@, "L2"),
                          !.thread[t].pc = IF L2Hit(redis, LayerKey) THEN "l2_load" ELSE "db_load",
                          !.thread[t].data = IF L2Hit(redis, LayerKey) THEN redis[LayerKey].val ELSE NoUser]
    /\ hist' = [hist EXCEPT !.ret = LayerRet("get", t, "L2", NoUser, req'.thread[t])]
    /\ UNCHANGED <<redis, db, env>>

\* lines 97-99: data = json.loads(cached); l1_cache[cache_key] = data; return
LayerFillFromL2(t) ==
    /\ req.thread[t].pc = "l2_fill"
    /\ env' = [env EXCEPT !.l1 = Put(@, LayerKey, req.thread[t].data, L1Ttl)]
    /\ LayerReturn(t, "L2 (Redis)", req.thread[t].data,
                   [req.thread[t] EXCEPT !.wrote = @ \cup {"L1"}])
    /\ UNCHANGED <<redis, db>>

\* lines 103-106: data = expensive_db_query(product_id); SET ex=60
LayerQuery(t) ==
    /\ req.thread[t].pc = "db_query"
    /\ redis' = Put(redis, LayerKey, Product(1), L2Ex)
    /\ req' = [req EXCEPT !.thread[t].pc = "db_fill", !.thread[t].data = Product(1),
                          !.thread[t].path = Append(@, "DB"),
                          !.thread[t].wrote = @ \cup {"L2"}]
    /\ hist' = [hist EXCEPT !.ret = LayerRet("set", t, "database", Product(1), req'.thread[t])]
    /\ UNCHANGED <<db, env>>

\* lines 107-109: l1_cache[cache_key] = data; return
LayerFillFromDb(t) ==
    /\ req.thread[t].pc = "db_fill"
    /\ env' = [env EXCEPT !.l1 = Put(@, LayerKey, req.thread[t].data, L1Ttl)]
    /\ LayerReturn(t, "database", req.thread[t].data,
                   [req.thread[t] EXCEPT !.wrote = @ \cup {"L1"}])
    /\ UNCHANGED <<redis, db>>

\* clear_cache, one statement at a time: l1_cache.clear()
ClearL1 ==
    /\ req.clear = "idle"
    /\ env.l1 # <<>> \/ redis # <<>>
    /\ env' = [env EXCEPT !.l1 = <<>>]
    /\ req' = [req EXCEPT !.clear = "flushdb"]
    /\ hist' = [hist EXCEPT !.ret = LayerRet("clear", 0, "L1", NoUser, NoThread)]
    /\ UNCHANGED <<redis, db>>

\* redis_client.flushdb()
ClearL2 ==
    /\ req.clear = "flushdb"
    /\ redis' = <<>>
    /\ req' = [req EXCEPT !.clear = "stats"]
    /\ hist' = [hist EXCEPT !.ret = LayerRet("flushdb", 0, "L2", NoUser, NoThread)]
    /\ UNCHANGED <<db, env>>

\* stats["l1_hits"] = 0; stats["l2_hits"] = 0; stats["db_hits"] = 0; return
ClearStats ==
    /\ req.clear = "stats"
    /\ db' = [l1_hits |-> 0, l2_hits |-> 0, db_hits |-> 0]
    /\ req' = [req EXCEPT !.clear = "idle"]
    /\ hist' = [hist EXCEPT !.ret = LayerRet("clear_cache", 0, "none", NoUser, NoThread)]
    /\ UNCHANGED <<redis, env>>

\* LayerTickSeconds seconds pass in the process and on the server
LayerTick ==
    /\ env.l1 # <<>> \/ redis # <<>>
    /\ redis' = AgeBy(redis, LayerTickSeconds)
    /\ env' = [env EXCEPT !.l1 = AgeBy(@, LayerTickSeconds)]
    /\ hist' = [hist EXCEPT !.ret = LayerRet("tick", 0, "none", NoUser, NoThread)]
    /\ UNCHANGED <<db, req>>

LayerInit ==
    /\ redis = <<>>
    /\ db = [l1_hits |-> 0, l2_hits |-> 0, db_hits |-> 0]
    /\ req = [thread |-> [t \in LayerThreads |-> NoThread], clear |-> "idle"]
    /\ env = [l1 |-> <<>>]
    /\ hist = [started |-> 0, ret |-> LayerRet("init", 0, "none", NoUser, NoThread)]

LayerNext ==
    \/ \E t \in LayerThreads : LayerCheckL1(t)
    \/ \E t \in LayerThreads : LayerLoad(t, "l1_load", "l1_hits", "l1_store")
    \/ \E t \in LayerThreads : LayerStore(t, "l1_store", "l1_hits", "l1_read")
    \/ \E t \in LayerThreads : LayerReadL1(t)
    \/ \E t \in LayerThreads : LayerGetL2(t)
    \/ \E t \in LayerThreads : LayerLoad(t, "l2_load", "l2_hits", "l2_store")
    \/ \E t \in LayerThreads : LayerStore(t, "l2_store", "l2_hits", "l2_fill")
    \/ \E t \in LayerThreads : LayerFillFromL2(t)
    \/ \E t \in LayerThreads : LayerLoad(t, "db_load", "db_hits", "db_store")
    \/ \E t \in LayerThreads : LayerStore(t, "db_store", "db_hits", "db_query")
    \/ \E t \in LayerThreads : LayerQuery(t)
    \/ \E t \in LayerThreads : LayerFillFromDb(t)
    \/ ClearL1
    \/ ClearL2
    \/ ClearStats
    \/ LayerTick

SpecLayer == LayerInit /\ [][LayerNext]_vars

\* C28: a request consults L1, then L2 only after an L1 miss, then the database
\* only after an L2 miss as well; a request answered from L2 has copied the value
\* into L1 and nothing else, one answered by the database has written L2 and L1;
\* and a request has executed exactly one increment, of the counter of the layer
\* that answered it.
C28_LayerOrder ==
    /\ [](\A t \in LayerThreads :
            /\ req.thread[t].pc # "idle" =>
                  req.thread[t].path \in {<<"L1">>, <<"L1", "L2">>, <<"L1", "L2", "DB">>}
            /\ Len(req.thread[t].incs) <= 1
            /\ req.thread[t].pc \in {"db_query", "db_fill"} =>
                  (req.thread[t].incs = <<"db_hits">> /\ req.thread[t].path[2] = "L2"))
    /\ [][hist'.ret.op = "get_product_multi_layer" =>
            /\ Len(hist'.ret.incs) = 1
            /\ hist'.ret.source \in {"L1 (Memory)", "KeyError"} =>
                  (hist'.ret.path = <<"L1">> /\ hist'.ret.incs = <<"l1_hits">>
                   /\ hist'.ret.wrote = {} /\ redis' = redis /\ env' = env)
            /\ hist'.ret.source = "L2 (Redis)" =>
                  /\ hist'.ret.path = <<"L1", "L2">>
                  /\ hist'.ret.incs = <<"l2_hits">>
                  /\ hist'.ret.wrote = {"L1"}
                  /\ env'.l1[LayerKey] = [val |-> hist'.ret.data, ttl |-> L1Ttl]
                  /\ redis' = redis
            /\ hist'.ret.source = "database" =>
                  /\ hist'.ret.path = <<"L1", "L2", "DB">>
                  /\ hist'.ret.incs = <<"db_hits">>
                  /\ hist'.ret.wrote = {"L1", "L2"}
                  /\ env'.l1[LayerKey] = [val |-> hist'.ret.data, ttl |-> L1Ttl]]_vars
    /\ [][(hist'.ret.op = "get" /\ hist'.ret.source = "L2") =>
            (~Exists(redis, LayerKey) <=> req'.thread[hist'.ret.thread].pc = "db_load")]_vars

\* C28 witness: a request has been answered from L2 after an L1 miss and has
\* copied the value into L1, with one database fetch counted before
C28_Witness ==
    /\ hist.ret.op = "get_product_multi_layer"
    /\ hist.ret.source = "L2 (Redis)"
    /\ hist.ret.path = <<"L1", "L2">>
    /\ Exists(env.l1, LayerKey)
    /\ Exists(redis, LayerKey)
    /\ db = [l1_hits |-> 0, l2_hits |-> 1, db_hits |-> 1]

(***************************************************************************)
(* Session storage (session-storage/main.py).  A session is a Redis hash   *)
(* session:<uuid> with an expiry.  create_session issues HSET and then     *)
(* EXPIRE, get_session issues EXISTS, HGETALL and EXPIRE, delete_session   *)
(* issues DEL; the commands of requests served by different processes      *)
(* interleave at the store, and a key can expire between two commands.     *)
(* redis is the store, env.uuid the next identifier uuid4 hands out,       *)
(* req.login the session whose HSET is done and whose EXPIRE is pending,   *)
(* req.reader the position of each /profile request, hist.ended the        *)
(* sessions that have been deleted by a completed logout or have expired.  *)
(***************************************************************************)
MaxSessions == 2
NumReaders == 1
SessionTickSeconds == 900
SESSION_TTL == 1800
Readers == 1 .. NumReaders
NoCookie == 0
NoSession == <<"None">>
EmptyHash == <<>>
NoReader == [pc |-> "idle", session_id |-> NoCookie, data |-> NoSession, late |-> FALSE]

\* line 38: key = f"session:{session_id}"
SessionKey(session_id) == <<"session", session_id>>

\* lines 40-44: the mapping stored by HSET
SessionHash(session_id) == <<"user_id", session_id>>

\* the session identifiers a browser can hold: those create_session has returned
Cookies == {NoCookie} \cup {s \in 1 .. (env.uuid - 1) : s # req.login}

\* HGETALL key: the hash, empty when the key does not exist
HGetAll(store, key) == IF Exists(store, key) THEN store[key].val ELSE EmptyHash

\* a refresh that writes the key back with a new expiry
SessionTouchSet(store, key, data) == Put(store, key, data, SESSION_TTL)

\* line 58: redis_client.expire(key, SESSION_TTL)
SessionTouch(store, key, data) == Expire(store, key, SESSION_TTL)

SessionRet(op, session_id, session, status, late) ==
    [op |-> op, session_id |-> session_id, session |-> session, status |-> status,
     late |-> late]

\* lines 72-81: login rejects credentials that fail validation
LoginRejected ==
    /\ hist' = [hist EXCEPT !.ret = SessionRet("login", NoCookie, NoSession, 400, FALSE)]
    /\ UNCHANGED <<redis, db, req, env>>

\* lines 37-44: session_id = str(uuid.uuid4()); redis_client.hset(key, mapping=...)
CreateSessionHset ==
    /\ req.login = NoCookie
    /\ env.uuid <= MaxSessions
    /\ redis' = Put(redis, SessionKey(env.uuid), SessionHash(env.uuid), NoExpiry)
    /\ req' = [req EXCEPT !.login = env.uuid]
    /\ env' = [env EXCEPT !.uuid = @ + 1]
    /\ hist' = [hist EXCEPT !.ret = SessionRet("hset", env.uuid, NoSession, 0, FALSE)]
    /\ UNCHANGED db

\* lines 45-47: redis_client.expire(key, SESSION_TTL); return session_id
CreateSessionExpire ==
    /\ req.login # NoCookie
    /\ redis' = Expire(redis, SessionKey(req.login), SESSION_TTL)
    /\ req' = [req EXCEPT !.login = NoCookie]
    /\ hist' = [hist EXCEPT !.ret = SessionRet("login", req.login, NoSession, 200, FALSE)]
    /\ UNCHANGED <<db, env>>

\* lines 103-104 and 52-54: get_profile without a cookie answers 401; get_session
\* returns None when EXISTS finds no key
GetSessionExists(g, session_id) ==
    /\ req.reader[g].pc = "idle"
    /\ IF session_id = NoCookie \/ ~Exists(redis, SessionKey(session_id))
       THEN /\ hist' = [hist EXCEPT !.ret = SessionRet("get_profile", session_id, NoSession,
                                                        401, session_id \in hist.ended)]
            /\ UNCHANGED req
       ELSE /\ req' = [req EXCEPT !.reader[g] =
                          [pc |-> "hgetall", session_id |-> session_id, data |-> NoSession,
                           late |-> session_id \in hist.ended]]
            /\ hist' = [hist EXCEPT !.ret = SessionRet("exists", session_id, NoSession, 0,
                                                        session_id \in hist.ended)]
    /\ UNCHANGED <<redis, db, env>>

\* line 57: session_data = redis_client.hgetall(key)
GetSessionHgetall(g) ==
    /\ req.reader[g].pc = "hgetall"
    /\ req' = [req EXCEPT !.reader[g].pc = "expire",
                          !.reader[g].data = HGetAll(redis, SessionKey(req.reader[g].session_id))]
    /\ hist' = [hist EXCEPT !.ret = SessionRet("hgetall", req.reader[g].session_id,
                                                NoSession, 0, req.reader[g].late)]
    /\ UNCHANGED <<redis, db, env>>

\* lines 58-60 and 108-114: redis_client.expire(key, SESSION_TTL); return
\* session_data; get_profile answers 401 when the session is empty
GetSessionExpire(g) ==
    LET r == req.reader[g]
    IN  /\ r.pc = "expire"
        /\ redis' = SessionTouch(redis, SessionKey(r.session_id), r.data)
        /\ req' = [req EXCEPT !.reader[g] = NoReader]
        /\ hist' = [hist EXCEPT !.ret = SessionRet("get_profile", r.session_id, r.data,
                                                    IF r.data = EmptyHash THEN 401 ELSE 200,
                                                    r.late)]
        /\ UNCHANGED <<db, env>>

\* lines 117-130 and 63-66: logout deletes the session named by the cookie
Logout(session_id) ==
    /\ redis' = IF session_id = NoCookie THEN redis ELSE Del(redis, SessionKey(session_id))
    /\ hist' = [ended |-> IF session_id = NoCookie THEN hist.ended
                          ELSE hist.ended \cup {session_id},
                ret |-> SessionRet("logout", session_id, NoSession, 200, FALSE)]
    /\ UNCHANGED <<db, req, env>>

\* SessionTickSeconds seconds pass; the sessions whose time is up expire
SessionTick ==
    /\ redis # <<>>
    /\ redis' = AgeBy(redis, SessionTickSeconds)
    /\ hist' = [ended |-> hist.ended \cup
                            {s \in 1 .. MaxSessions :
                                Exists(redis, SessionKey(s)) /\ ~Exists(redis', SessionKey(s))},
                ret |-> SessionRet("tick", NoCookie, NoSession, 0, FALSE)]
    /\ UNCHANGED <<db, req, env>>

SessionInit ==
    /\ redis = <<>>
    /\ db = <<>>
    /\ req = [login |-> NoCookie, reader |-> [g \in Readers |-> NoReader]]
    /\ env = [uuid |-> 1]
    /\ hist = [ended |-> {}, ret |-> SessionRet("init", NoCookie, NoSession, 0, FALSE)]

SessionNext ==
    \/ LoginRejected
    \/ CreateSessionHset
    \/ CreateSessionExpire
    \/ \E g \in Readers, s \in Cookies : GetSessionExists(g, s)
    \/ \E g \in Readers : GetSessionHgetall(g)
    \/ \E g \in Readers : GetSessionExpire(g)
    \/ \E s \in Cookies : Logout(s)
    \/ SessionTick

SpecSession == SessionInit /\ [][SessionNext]_vars

\* a session that a completed logout deleted, or that expired, is never in the
\* store again
SessionEndedForGood == \A s \in hist.ended : ~Exists(redis, SessionKey(s))

\* a get_session that starts after the session was deleted or expired returns
\* None and get_profile answers 401; get_profile answers 200 exactly when
\* get_session returned a session
SessionLateGetsNothing ==
    [][hist'.ret.op = "get_profile" =>
          /\ hist'.ret.late => (hist'.ret.session = NoSession /\ hist'.ret.status = 401)
          /\ hist'.ret.status = 200 <=> hist'.ret.session \notin {NoSession, EmptyHash}]_vars

\* C29: after a completed delete_session(s) every later get_session(s) returns
\* no session and get_profile answers 401, a deleted or expired session is never
\* recreated, and after each get_session that returned a session the session is
\* in the store with SESSION_TTL seconds to live.
C29_SessionLifecycle ==
    /\ [][hist'.ret.op = "get_profile" =>
            /\ hist'.ret.late => (hist'.ret.session = NoSession /\ hist'.ret.status = 401)
            /\ hist'.ret.status = 200 <=> hist'.ret.session \notin {NoSession, EmptyHash}]_vars
    /\ [](\A s \in hist.ended : ~Exists(redis, SessionKey(s)))
    /\ [][(hist'.ret.op = "get_profile" /\ hist'.ret.status = 200) =>
            /\ Exists(redis', SessionKey(hist'.ret.session_id))
            /\ redis'[SessionKey(hist'.ret.session_id)].ttl = SESSION_TTL]_vars

\* a get_session has returned a session that is no longer in the store
SessionReturnedUnrenewed ==
    /\ hist.ret.op = "get_profile"
    /\ hist.ret.status = 200
    /\ ~Exists(redis, SessionKey(hist.ret.session_id))

(***************************************************************************)
(* cache.py: set_with_tags and invalidate_by_tag as the store sees them.   *)
(* Each method issues its commands one by one (SETEX, SADD, EXPIRE and     *)
(* SMEMBERS, DEL keys, DEL tag set); the commands of a writer and of an    *)
(* invalidation running in another request interleave.  req.set and        *)
(* req.inv are the positions of the two calls, req.inv.keys the members    *)
(* that SMEMBERS returned, env the number of calls left to start.          *)
(***************************************************************************)
MaxRaceSets == 2
MaxRaceInvalidations == 1
RaceTag == "category:1"

\* line 138: self.client.setex(key, ttl, json.dumps(value))
RaceSetex(k) ==
    /\ req.set.pc = "idle"
    /\ env.sets > 0
    /\ redis' = SetEx(redis, k, default_ttl, "v1").store
    /\ req' = [req EXCEPT !.set = [pc |-> "sadd", key |-> k]]
    /\ env' = [env EXCEPT !.sets = @ - 1]
    /\ hist' = [ret |-> TagRet("setex", RaceTag, 0, {k})]
    /\ UNCHANGED db

\* line 142: self.client.sadd(f"tag:{tag}", key)
RaceSadd ==
    /\ req.set.pc = "sadd"
    /\ redis' = SAdd(redis, TagSetKey(RaceTag), req.set.key)
    /\ req' = [req EXCEPT !.set.pc = "expire"]
    /\ hist' = [ret |-> TagRet("sadd", RaceTag, 0, {req.set.key})]
    /\ UNCHANGED <<db, env>>

\* line 144: self.client.expire(f"tag:{tag}", ttl + 60); the method returns
RaceExpire ==
    /\ req.set.pc = "expire"
    /\ redis' = Expire(redis, TagSetKey(RaceTag), default_ttl + 60)
    /\ req' = [req EXCEPT !.set = [pc |-> "idle", key |-> ""]]
    /\ hist' = [ret |-> TagRet("set_with_tags", RaceTag, 0, {req.set.key})]
    /\ UNCHANGED <<db, env>>

\* lines 154-156 and 162-163: keys = self.client.smembers(f"tag:{tag}"); if keys:
RaceSmembers ==
    /\ req.inv.pc = "idle"
    /\ env.invalidations > 0
    /\ LET keys == SMembers(redis, TagSetKey(RaceTag))
       IN  /\ req' = [req EXCEPT !.inv = [pc |-> IF keys = {} THEN "idle" ELSE "delkeys",
                                           keys |-> keys]]
           /\ hist' = [ret |-> TagRet(IF keys = {} THEN "invalidate_by_tag" ELSE "smembers",
                                      RaceTag, 0, keys)]
    /\ env' = [env EXCEPT !.invalidations = @ - 1]
    /\ UNCHANGED <<redis, db>>

\* line 158: self.client.delete(*keys)
RaceDelKeys ==
    /\ req.inv.pc = "delkeys"
    /\ redis' = DelAll(redis, req.inv.keys)
    /\ req' = [req EXCEPT !.inv.pc = "deltag"]
    /\ hist' = [ret |-> TagRet("delkeys", RaceTag, 0, req.inv.keys)]
    /\ UNCHANGED <<db, env>>

\* lines 160-161: self.client.delete(f"tag:{tag}"); the method returns
RaceDelTag ==
    /\ req.inv.pc = "deltag"
    /\ redis' = Del(redis, TagSetKey(RaceTag))
    /\ req' = [req EXCEPT !.inv = [pc |-> "idle", keys |-> {}]]
    /\ hist' = [ret |-> TagRet("invalidate_by_tag", RaceTag, Cardinality(req.inv.keys),
                               req.inv.keys)]
    /\ UNCHANGED <<db, env>>

TagRaceInit ==
    /\ redis = <<>>
    /\ db = <<>>
    /\ req = [set |-> [pc |-> "idle", key |-> ""], inv |-> [pc |-> "idle", keys |-> {}]]
    /\ env = [sets |-> MaxRaceSets, invalidations |-> MaxRaceInvalidations]
    /\ hist = [ret |-> TagRet("init", "", 0, {})]

TagRaceNext ==
    \/ \E k \in TagKeys : RaceSetex(k)
    \/ RaceSadd
    \/ RaceExpire
    \/ RaceSmembers
    \/ RaceDelKeys
    \/ RaceDelTag

SpecTagRace == TagRaceInit /\ [][TagRaceNext]_vars

\* C32: once a set_with_tags(k, .., [t]) and a concurrent invalidate_by_tag(t) have
\* both completed, every key that is still cached is a member of tag:t.
C32_TagInvalidationAtomic ==
    (req.set.pc = "idle" /\ req.inv.pc = "idle") =>
        \A k \in TagKeys : Exists(redis, k) => k \in SMembers(redis, TagSetKey(RaceTag))

(***************************************************************************)
(* cache.py: get_with_swr against the clock of the store.  The store       *)
(* keeps expiries finer than a second and the TTL command reports whole    *)
(* seconds, rounded to the nearest: here a key's ttl is counted in units   *)
(* of 1 / UnitsPerSecond s.  get_with_swr is two commands, GET and TTL,    *)
(* and time passes between them.  The key is products:featured, written by *)
(* refresh_swr with ttl = 120.  req is the call's position and the value   *)
(* its GET returned, hist.ret the last answer.                             *)
(***************************************************************************)
UnitsPerSecond == 4
SwrReadStep == 1
SwrReadJump == 119

\* TTL key: -2 for a key that does not exist, else the remaining time in whole
\* seconds, rounded
TtlReported(store, key) ==
    IF ~Exists(store, key) THEN -2
    ELSE IF store[key].ttl = NoExpiry THEN -1
    ELSE (2 * store[key].ttl + UnitsPerSecond) \div (2 * UnitsPerSecond)

\* lines 105-117: the answer for the value GET returned and the ttl TTL reported
SwrAnswer(value, ttl, threshold) ==
    IF value = Miss THEN ReturnNoneTrue
    ELSE IF 0 < ttl /\ ttl < threshold THEN [value |-> value, refresh |-> TRUE]
    ELSE IF ttl > 0 THEN [value |-> value, refresh |-> FALSE]
    ELSE ReturnNoneTrue

SwrReadRet(op, r, ttl) ==
    [op |-> op, value |-> r.value, refresh |-> r.refresh, ttl |-> ttl]

\* main.py line 293: cache.refresh_swr(key, products_data, ttl=120)
SwrReadRefresh ==
    /\ redis' = Put(redis, FeaturedKey, "[v1]", SwrTtl * UnitsPerSecond)
    /\ hist' = [ret |-> SwrReadRet("refresh_swr", ReturnNoneTrue, 0)]
    /\ UNCHANGED <<db, req, env>>

\* lines 104-105 and 118-119: value = self.client.get(key); without a value the
\* method returns (None, True)
SwrReadGet ==
    /\ req.pc = "idle"
    /\ IF Exists(redis, FeaturedKey)
       THEN /\ req' = [pc |-> "ttl", value |-> redis[FeaturedKey].val]
            /\ hist' = [ret |-> SwrReadRet("get", ReturnNoneTrue, 0)]
       ELSE /\ req' = req
            /\ hist' = [ret |-> SwrReadRet("get_with_swr", SwrAnswer(Miss, 0, stale_threshold), -2)]
    /\ UNCHANGED <<redis, db, env>>

\* lines 106-119: ttl = self.client.ttl(key) and the branches on it
SwrReadTtl ==
    /\ req.pc = "ttl"
    /\ LET ttl == TtlReported(redis, FeaturedKey)
       IN  hist' = [ret |-> SwrReadRet("get_with_swr",
                                       SwrAnswer(req.value, ttl, stale_threshold), ttl)]
    /\ req' = [pc |-> "idle", value |-> Miss]
    /\ UNCHANGED <<redis, db, env>>

\* d units of time pass
SwrReadTick(d) ==
    /\ redis # <<>>
    /\ redis' = AgeBy(redis, d)
    /\ hist' = [ret |-> SwrReadRet("tick", ReturnNoneTrue, 0)]
    /\ UNCHANGED <<db, req, env>>

SwrReadInit ==
    /\ redis = <<>>
    /\ db = <<>>
    /\ req = [pc |-> "idle", value |-> Miss]
    /\ env = <<>>
    /\ hist = [ret |-> SwrReadRet("init", ReturnNoneTrue, 0)]

SwrReadNext ==
    \/ SwrReadRefresh
    \/ SwrReadGet
    \/ SwrReadTtl
    \/ \E d \in {SwrReadStep, SwrReadJump} : SwrReadTick(d)

SpecSwrRead == SwrReadInit /\ [][SwrReadNext]_vars

\* C39: get_with_swr returns the cached value whenever the key holds one and
\* answers (None, True) only when the key is absent, whatever remaining time the
\* TTL command reports.
C39_MissOnlyWhenAbsent ==
    [][hist'.ret.op = "get_with_swr" =>
          /\ hist'.ret.value = Miss <=> ~Exists(redis, FeaturedKey)
          /\ hist'.ret.value = Miss => hist'.ret.refresh]_vars

\* a key for which TTL reports at least one second is returned, and a miss always
\* asks for a refresh
SwrReadPositiveTtl ==
    [][hist'.ret.op = "get_with_swr" =>
          /\ hist'.ret.ttl > 0 =>
                (hist'.ret.value = redis[FeaturedKey].val
                 /\ hist'.ret.refresh = (hist'.ret.ttl < stale_threshold))
          /\ hist'.ret.value = Miss => hist'.ret.refresh]_vars

(***************************************************************************)
(* locks.py: the with_lock decorator.  Each caller makes one call of a     *)
(* wrapped function under the key lock:event:1 with the same timeout and   *)
(* wait_time.  Time is in seconds.  The wrapper creates its own RedisLock, *)
(* and the acquire that succeeds is its last one, so release compares the  *)
(* token of that acquire: it is written as the caller's number.  How long  *)
(* the wrapped function runs and whether it returns or raises is up to the *)
(* function.  req[c].runs counts the executions of the function by the     *)
(* call, req[c].expired tells that the lease of its acquire ran out.       *)
(***************************************************************************)
NumWrapCallers == 2
WrapTimeout == 2
WrapWait == 2
WrapCallers == 1 .. NumWrapCallers
CouldNotAcquire == "Could not acquire lock"

WrapHolds(c) == Exists(redis, event_lock_key) /\ redis[event_lock_key].val = c

\* lines 96-100: lock = RedisLock(redis_client); start_time = time.time()
WrapStart(c) ==
    /\ req[c].pc = "idle"
    /\ req' = [req EXCEPT ![c].pc = "loop"]
    /\ UNCHANGED <<redis, db, env, hist>>

\* lines 101-105 and 111: one pass of the loop: a successful acquire is followed by
\* the call of the function, a failed one by time.sleep(0.1)
WrapTry(c) ==
    /\ req[c].pc = "loop"
    /\ req[c].waited < WrapWait
    /\ LET r == SetNX(redis, event_lock_key, c, WrapTimeout)
       IN  /\ redis' = r.store
           /\ req' = [req EXCEPT ![c].pc = IF r.ok THEN "func" ELSE "loop",
                                 ![c].runs = IF r.ok THEN @ + 1 ELSE @]
    /\ UNCHANGED <<db, env, hist>>

\* lines 105-107: the function returns (raised = FALSE) or raises; control goes to
\* the finally block
WrapFuncEnds(c, raised) ==
    /\ req[c].pc = "func"
    /\ req' = [req EXCEPT ![c].pc = "finally",
                          ![c].outcome = IF raised THEN "error" ELSE "result"]
    /\ UNCHANGED <<redis, db, env, hist>>

\* a wrapper that goes round the loop again after the function raised
WrapReleaseRetries(c) ==
    /\ req[c].pc = "finally"
    /\ redis' = ReleaseScript(redis, event_lock_key, c).store
    /\ req' = [req EXCEPT ![c].pc = IF req[c].outcome = "error" THEN "loop" ELSE "done"]
    /\ UNCHANGED <<db, env, hist>>

\* lines 106-108: finally: lock.release(key); the result is returned or the
\* exception goes on to the caller
WrapRelease(c) ==
    /\ req[c].pc = "finally"
    /\ redis' = ReleaseScript(redis, event_lock_key, c).store
    /\ req' = [req EXCEPT ![c].pc = "done"]
    /\ UNCHANGED <<db, env, hist>>

\* lines 101 and 113-114: wait_time is over: raise Exception("Could not acquire lock: ...")
WrapGiveUp(c) ==
    /\ req[c].pc = "loop"
    /\ req[c].waited >= WrapWait
    /\ req' = [req EXCEPT ![c].pc = "done", ![c].outcome = CouldNotAcquire]
    /\ UNCHANGED <<redis, db, env, hist>>

\* one second passes
WrapTick ==
    /\ \E c \in WrapCallers : req[c].pc \in {"loop", "func", "finally"}
    /\ redis' = AgeBy(redis, 1)
    /\ req' = [c \in WrapCallers |->
                 [req[c] EXCEPT !.waited = IF req[c].pc = "loop" /\ @ < WrapWait
                                           THEN @ + 1 ELSE @,
                                !.expired = @ \/ (WrapHolds(c) /\ ~Exists(redis', event_lock_key))]]
    /\ UNCHANGED <<db, env, hist>>

WrapInit ==
    /\ redis = <<>>
    /\ db = <<>>
    /\ req = [c \in WrapCallers |-> [pc |-> "idle", waited |-> 0, runs |-> 0,
                                     outcome |-> "none", expired |-> FALSE]]
    /\ env = <<>>
    /\ hist = <<>>

WrapNext ==
    \/ \E c \in WrapCallers : WrapStart(c)
    \/ \E c \in WrapCallers : WrapTry(c)
    \/ \E c \in WrapCallers, raised \in BOOLEAN : WrapFuncEnds(c, raised)
    \/ \E c \in WrapCallers : WrapRelease(c)
    \/ \E c \in WrapCallers : WrapGiveUp(c)
    \/ WrapTick

SpecWrap == WrapInit /\ [][WrapNext]_vars

\* C40 as stated: a call runs the function at most once and only while it holds
\* the lock, the lock is released when the function has returned or raised, and
\* a call that did not get the lock within wait_time raises "Could not acquire
\* lock" without having run the function.
C40_WithLockAsStated ==
    \A c \in WrapCallers :
        /\ req[c].runs <= 1
        /\ req[c].pc = "func" => WrapHolds(c)
        /\ req[c].pc = "done" => ~WrapHolds(c)
        /\ req[c].outcome = CouldNotAcquire => (req[c].runs = 0 /\ req[c].waited >= WrapWait)

\* C40: a call runs the function at most once, starts it only in the step in
\* which its acquire succeeded, and holds the lock while the function runs for
\* as long as the lease of timeout seconds has not run out; the lock is released
\* when the function has returned or raised; and a call that did not get the
\* lock within wait_time raises "Could not acquire lock" without having run the
\* function.
C40_WithLockLease ==
    /\ [](\A c \in WrapCallers :
            /\ req[c].runs <= 1
            /\ (req[c].pc = "func" /\ ~req[c].expired) => WrapHolds(c)
            /\ req[c].pc = "done" => ~WrapHolds(c)
            /\ req[c].outcome = CouldNotAcquire =>
                  (req[c].runs = 0 /\ req[c].waited >= WrapWait /\ req[c].pc = "done")
            /\ req[c].outcome \in {"result", "error"} => req[c].runs = 1)
    /\ [][\A c \in WrapCallers :
            /\ (req[c].pc # "func" /\ req'[c].pc = "func") =>
                  (~Exists(redis, event_lock_key)
                   /\ redis'[event_lock_key] = [val |-> c, ttl |-> WrapTimeout])
            /\ (req[c].pc = "finally" /\ req'[c].pc = "done" /\ WrapHolds(c)) =>
                  ~Exists(redis', event_lock_key)]_vars

\* C40 witness: one call ran the function, which raised, and released the lock;
\* the other call waited wait_time, gave up and never ran the function
C40_Witness ==
    \E c, d \in WrapCallers :
        /\ req[c].pc = "done" /\ req[c].outcome = "error" /\ req[c].runs = 1
        /\ ~req[c].expired
        /\ req[d].pc = "done" /\ req[d].outcome = CouldNotAcquire /\ req[d].runs = 0
        /\ ~Exists(redis, event_lock_key)

====
